---- MODULE Spec2Model ----
(***************************************************************************)
(* A model of the SF game engine's rendering core: the command submission  *)
(* layer (CommandBuffer), the per-surface frame ring of the render system, *)
(* the VMA-backed Buffer, the physical-device selector, the queue family   *)
(* selection and feature negotiation of the logical device, shader         *)
(* reflection, framebuffer creation, the uniform and storage handlers,     *)
(* the engine's module scheduler, the shader bundle file, the type         *)
(* registry and the shader include resolver.                               *)
(*                                                                         *)
(* Each subsystem has its own variables, initial predicate, next-state     *)
(* relation and specification; a subsystem's actions leave the variables   *)
(* of the other subsystems unchanged.                                      *)
(***************************************************************************)
EXTENDS Integers, Sequences, FiniteSets, TLC

VARIABLES
    \* ---- the device and its queues
    fences,         \* the device's fences: handle -> state
    pending,        \* queue submissions the GPU has not completed yet
    lastSubmit,     \* the VkSubmitInfo and fence of the latest vkQueueSubmit
    \* ---- command submission layer (CommandBuffer.cpp)
    queueType,      \* CommandBuffer::queueType
    running,        \* CommandBuffer::running
    recCalls,       \* vkBeginCommandBuffer / vkEndCommandBuffer calls issued so far
    nSubmits,       \* number of vkQueueSubmit calls issued
    nextFence,      \* number of fences created by vkCreateFence
    pcCmd,          \* where the calling thread is: ready, blocked in SubmitIdle, crashed
    lastCall,       \* the CommandBuffer member function that returned last
    \* ---- render system, per-surface frame state (Graphics.hpp)
    perSurfaceBuffers,  \* RenderSystem::perSurfaceBuffers: surface -> PerSurfaceBuffers
    swapchains,         \* RenderSystem::swapchains: surface -> its swapchain, 0 or 1 in turn
    pcFrame,            \* the render thread: the surface it is at and its step
    \* ---- memory-backed resource layer (Buffer.cpp)
    buffers,        \* the Buffer objects: object -> its fields
    vma,            \* the allocator: allocation -> its state
    nAllocs,        \* number of vmaCreateBuffer calls
    bufFatal,       \* an allocator call failed and CheckVkResult threw
    lastBufOp,      \* the Buffer member function that ran last
    \* ---- physical device selection (PhysicalDevice.cpp)
    physicalDevices,    \* what vkEnumeratePhysicalDevices reports, in order
    physicalDevice,     \* PhysicalDevice::physicalDevice, the selected device
    pcDev,              \* "start", "constructed" or "error"
    devError,           \* the message of the exception thrown, if any
    scoreInput,         \* a device descriptor, its type left open
    typeScores,         \* the score of scoreInput under each device type
    \* ---- queue family resolution (LogicalDevice.cpp)
    queueFamilies,      \* what vkGetPhysicalDeviceQueueFamilyProperties reports, in order
    queueIndices,       \* the members GraphicsFamily, presentFamily, computeFamily, transferFamily, supportedQueues
    pcQueue,            \* "start", "done" or "error"
    queueLog,           \* the exception thrown, if any, and the warnings logged
    \* ---- logical device creation (LogicalDevice.cpp)
    availableFeatures,  \* what vkGetPhysicalDeviceFeatures2 reports, per feature struct
    deviceCreateInfo,   \* the VkDeviceCreateInfo passed to vkCreateDevice
    logicalDevice,      \* LogicalDevice::logicalDevice
    pcLd,               \* "start", "created" or "error"
    ldLog,              \* the warnings logged
    \* ---- shader reflection (Shader.cpp)
    shader,             \* the reflection tables of one Shader
    reflected,          \* the ReflectFromSPIRV calls its tables stem from: blob and stage, in order
    nReloads,           \* number of Shader::Reload calls
    \* ---- framebuffers of a render stage (FrameBuffer.cpp)
    stageAttachments,   \* RenderStage::GetAttachments(): binding and type of each attachment
    imageCount,         \* Swapchain::GetImageCount()
    imageAttachments,   \* Framebuffer::imageAttachments
    framebuffer,        \* Framebuffer::framebuffer: the attachment views of each VkFramebuffer
    pcFb,               \* "start", "built", "crashed" or "error"
    \* ---- uniform and storage handlers (UniformHandler, StorageHandler)
    handler,            \* the fields of one handler and the bytes of its buffer
    pcHandler,          \* "ready", "crashed" or "threw"
    lastHandlerOp,      \* the member function that ran last: arguments, comparisons, copies, result
    \* ---- engine module scheduler (Engine, Module)
    registry,           \* Module::Registry(): type id -> [stage, dependencies]
    moduleFilter,       \* the type ids the ModuleFilter includes
    modules,            \* Engine::modules: the type ids that have a module instance
    moduleStages,       \* Engine::moduleStages: stage -> type ids in creation order
    engineLog,          \* constructor calls and Initialize() calls, in the order they ran
    tickLog,            \* the stage passes and Update() calls of the latest run-loop iteration
    pcEngine,           \* "start", "overflowed", "running", "stopped", "destroyed", "crashed"
    \* ---- shader bundle (ShaderBundle.hpp)
    bundle,             \* ShaderBundle: data_, entries_, hashToIndex_
    bundleFile,         \* the file at filepath: header, entry records, data, and the bundle saved
    lastBundleOp,       \* the member function that ran last and what it returned
    \* ---- type registry (TypeInformation.hpp)
    s_typeMap,          \* TypeInformation::s_typeMap: type -> id
    s_nextTypeId,       \* TypeInformation::s_nextTypeId
    s_mutex,            \* TypeInformation::s_mutex: the shared holders and the exclusive holder
    typeCalls,          \* per thread: where its GetTypeId call is, for which type, what it found
    handedOut,          \* the <<type, id>> pairs GetTypeId calls have returned
    cleared,            \* Clear() has run
    \* ---- shader include resolver (ShaderIncludes.hpp/.cpp)
    includeDirs_,       \* ShaderIncludeResolver::includeDirs_
    includeCache_,      \* ShaderIncludeResolver::includeCache_: path -> content
    importedFiles_,     \* ShaderIncludeResolver::importedFiles_
    lastError_,         \* ShaderIncludeResolver::lastError_
    trackDepth_,        \* ShaderIncludeResolver::trackDepth_
    lastIncludeOp       \* the last call of the resolver and what it returned

deviceVars == <<fences, pending, lastSubmit>>

cmdVars == <<queueType, running, recCalls, nSubmits, nextFence, pcCmd, lastCall>>

frameVars == <<perSurfaceBuffers, swapchains, pcFrame>>

bufVars == <<buffers, vma, nAllocs, bufFatal, lastBufOp>>

devVars == <<physicalDevices, physicalDevice, pcDev, devError>>
scoreVars == <<scoreInput, typeScores>>
queueVars == <<queueFamilies, queueIndices, pcQueue, queueLog, availableFeatures, deviceCreateInfo,
              logicalDevice, pcLd, ldLog>>
shaderVars == <<shader, reflected, nReloads>>
fbVars == <<stageAttachments, imageCount, imageAttachments, framebuffer, pcFb>>
handlerVars == <<handler, pcHandler, lastHandlerOp>>
engineVars == <<registry, moduleFilter, modules, moduleStages, engineLog, tickLog, pcEngine>>
bundleVars == <<bundle, bundleFile, lastBundleOp>>
typeVars == <<s_typeMap, s_nextTypeId, s_mutex, typeCalls, handedOut, cleared>>
includeVars == <<includeDirs_, includeCache_, importedFiles_, lastError_, trackDepth_, lastIncludeOp>>

vars == <<deviceVars, cmdVars, frameVars, bufVars, devVars, scoreVars, queueVars, shaderVars,
         fbVars, handlerVars, engineVars, bundleVars, typeVars, includeVars>>

\* The variables each subsystem leaves alone.
cmdOthers == <<frameVars, bufVars, devVars, scoreVars, queueVars, shaderVars, fbVars, handlerVars,
    engineVars, bundleVars, typeVars, includeVars>>
frameOthers == <<cmdVars, bufVars, devVars, scoreVars, queueVars, shaderVars, fbVars, handlerVars,
    engineVars, bundleVars, typeVars, includeVars>>
bufOthers == <<deviceVars, cmdVars, frameVars, devVars, scoreVars, queueVars, shaderVars, fbVars,
    handlerVars, engineVars, bundleVars, typeVars, includeVars>>
devOthers == <<deviceVars, cmdVars, frameVars, bufVars, scoreVars, queueVars, shaderVars, fbVars,
    handlerVars, engineVars, bundleVars, typeVars, includeVars>>
scoreOthers == <<deviceVars, cmdVars, frameVars, bufVars, devVars, queueVars, shaderVars, fbVars,
    handlerVars, engineVars, bundleVars, typeVars, includeVars>>
queueOthers == <<deviceVars, cmdVars, frameVars, bufVars, devVars, scoreVars, shaderVars, fbVars,
    handlerVars, engineVars, bundleVars, typeVars, includeVars>>
shaderOthers == <<deviceVars, cmdVars, frameVars, bufVars, devVars, scoreVars, queueVars, fbVars,
    handlerVars, engineVars, bundleVars, typeVars, includeVars>>
fbOthers == <<deviceVars, cmdVars, frameVars, bufVars, devVars, scoreVars, queueVars, shaderVars,
    handlerVars, engineVars, bundleVars, typeVars, includeVars>>
handlerOthers == <<deviceVars, cmdVars, frameVars, bufVars, devVars, scoreVars, queueVars, shaderVars,
    fbVars, engineVars, bundleVars, typeVars, includeVars>>
engineOthers == <<deviceVars, cmdVars, frameVars, bufVars, devVars, scoreVars, queueVars, shaderVars,
    fbVars, handlerVars, bundleVars, typeVars, includeVars>>
bundleOthers == <<deviceVars, cmdVars, frameVars, bufVars, devVars, scoreVars, queueVars, shaderVars,
    fbVars, handlerVars, engineVars, typeVars, includeVars>>
typeOthers == <<deviceVars, cmdVars, frameVars, bufVars, devVars, scoreVars, queueVars, shaderVars,
    fbVars, handlerVars, engineVars, bundleVars, includeVars>>
includeOthers == <<deviceVars, cmdVars, frameVars, bufVars, devVars, scoreVars, queueVars, shaderVars,
    fbVars, handlerVars, engineVars, bundleVars, typeVars>>

-----------------------------------------------------------------------------
(***************************************************************************)
(* Command submission layer: src/Graphics/Commands/CommandBuffer.cpp       *)
(***************************************************************************)

\* Bounds of the command-layer model.
MaxRecCalls == 4      \* vkBegin/vkEndCommandBuffer calls recorded
MaxSubmits == 3       \* vkQueueSubmit calls issued
MaxIdleFences == 2    \* fences created by SubmitIdle

\* Handles are tuples; the null handle is a tuple no object has.
VK_NULL_HANDLE == <<"VK_NULL_HANDLE">>

QueueTypes == {"VK_QUEUE_GRAPHICS_BIT", "VK_QUEUE_COMPUTE_BIT", "VK_QUEUE_TRANSFER_BIT"}

\* Fences the caller of Submit owns, and the semaphores it may pass.
CallerFences == {<<"callerFence", 1>>, <<"callerFence", 2>>}
Semaphores == {<<"semaphore", 1>>}

IdleFence(n) == <<"idleFence", n>>

FenceHandles == CallerFences \cup {IdleFence(n) : n \in 1..(MaxIdleFences + 1)}

\* CommandBuffer::GetQueue: the queue of the buffer's queue type, null for any
\* type other than graphics and compute.
GetQueue(qt) ==
    CASE qt = "VK_QUEUE_GRAPHICS_BIT" -> <<"GraphicsQueue">>
      [] qt = "VK_QUEUE_COMPUTE_BIT" -> <<"computeQueue">>
      [] OTHER -> VK_NULL_HANDLE

\* The part of the world a CommandBuffer member function reads and writes.
CmdWorld ==
    [commandBuffer |-> <<"commandBuffer">>, running |-> running, recCalls |-> recCalls, fences |-> fences,
     pending |-> pending, lastSubmit |-> lastSubmit, nSubmits |-> nSubmits,
     nextFence |-> nextFence]

\* CommandBuffer::Begin, lines 30-40.
Begin_NoGuard(w) ==
    [w EXCEPT !.recCalls = Append(@, "vkBeginCommandBuffer"), !.running = TRUE]

Begin(w) ==
    IF w.running
    THEN w
    ELSE [w EXCEPT !.recCalls = Append(@, "vkBeginCommandBuffer"), !.running = TRUE]

\* CommandBuffer::End, lines 42-49.
End(w) ==
    IF ~w.running
    THEN w
    ELSE [w EXCEPT !.recCalls = Append(@, "vkEndCommandBuffer"), !.running = FALSE]

\* vkCreateFence with no flags: a new, unsignalled fence.
vkCreateFence(w) ==
    [w EXCEPT !.nextFence = @ + 1,
              !.fences[IdleFence(w.nextFence + 1)] = "unsignalled"]

\* vkResetFences on one fence.
vkResetFences(w, fence) == [w EXCEPT !.fences[fence] = "unsignalled"]

\* CommandBuffer::Submit, lines 108-109: the fence is reset when it is not null.
ResetIfNotNull_NoReset(w, fence) == w

ResetIfNotNull(w, fence) ==
    IF fence # VK_NULL_HANDLE THEN vkResetFences(w, fence) ELSE w

\* CommandBuffer::Submit, lines 87-106: the VkSubmitInfo.  A semaphore is
\* attached when it is not null.
SubmitInfo(waitSemaphore, signalSemaphore) ==
    [commandBufferCount |-> 1,
     waitSemaphoreCount |-> IF waitSemaphore # VK_NULL_HANDLE THEN 1 ELSE 0,
     pWaitSemaphores |-> IF waitSemaphore # VK_NULL_HANDLE THEN <<waitSemaphore>> ELSE <<>>,
     pWaitDstStageMask |-> IF waitSemaphore # VK_NULL_HANDLE
                           THEN <<"VK_PIPELINE_STAGE_COLOR_ATTACHMENT_OUTPUT_BIT">>
                           ELSE <<>>,
     signalSemaphoreCount |-> IF signalSemaphore # VK_NULL_HANDLE THEN 1 ELSE 0,
     pSignalSemaphores |-> IF signalSemaphore # VK_NULL_HANDLE THEN <<signalSemaphore>> ELSE <<>>]

NoSubmitInfo == SubmitInfo(VK_NULL_HANDLE, VK_NULL_HANDLE)

\* vkQueueSubmit: the submission joins the queue's pending work.  What the
\* driver sees at the call (recording state, fence state) is kept with it.
vkQueueSubmit(w, by, queue, info, fence) ==
    LET sub == [seq |-> w.nSubmits + 1, by |-> by, queue |-> queue, info |-> info,
                commandBuffer |-> w.commandBuffer, fence |-> fence,
                fenceAtSubmit |-> IF fence = VK_NULL_HANDLE THEN "none" ELSE w.fences[fence],
                recordingAtSubmit |-> w.running]
    IN [w EXCEPT !.nSubmits = @ + 1, !.pending = Append(@, sub), !.lastSubmit = sub]

\* CommandBuffer::Submit, lines 79-112, up to and including vkQueueSubmit.
SubmitBody_ResetAfterSubmit(w, qt, waitSemaphore, signalSemaphore, fence) ==
    LET queueSelected == GetQueue(qt)
        w1 == IF w.running THEN End(w) ELSE w
        info == SubmitInfo(waitSemaphore, signalSemaphore)
        w2 == vkQueueSubmit(w1, "Submit", queueSelected, info, fence)
    IN ResetIfNotNull(w2, fence)

SubmitBody(w, qt, waitSemaphore, signalSemaphore, fence) ==
    LET queueSelected == GetQueue(qt)
        w1 == IF w.running THEN End(w) ELSE w
        info == SubmitInfo(waitSemaphore, signalSemaphore)
        w2 == ResetIfNotNull(w1, fence)
    IN vkQueueSubmit(w2, "Submit", queueSelected, info, fence)

\* CommandBuffer::SubmitIdle, lines 51-72, up to and including vkQueueSubmit.
SubmitIdleBody(w, qt) ==
    LET queueSelected == GetQueue(qt)
        w1 == IF w.running THEN End(w) ELSE w
        w2 == vkCreateFence(w1)
        fence == IdleFence(w2.nextFence)
        w3 == vkResetFences(w2, fence)
    IN vkQueueSubmit(w3, "SubmitIdle", queueSelected, NoSubmitInfo, fence)

\* vkWaitForFences with an unbounded timeout returns once the fence is signalled.
vkWaitForFences_NoWait(fs, fence) == TRUE

vkWaitForFences(fs, fence) == fs[fence] = "signalled"

SetCmdWorld(w) ==
    /\ running' = w.running
    /\ recCalls' = w.recCalls
    /\ fences' = w.fences
    /\ pending' = w.pending
    /\ lastSubmit' = w.lastSubmit
    /\ nSubmits' = w.nSubmits
    /\ nextFence' = w.nextFence

NoSubmission ==
    [seq |-> 0, by |-> "none", queue |-> VK_NULL_HANDLE, info |-> NoSubmitInfo,
     commandBuffer |-> VK_NULL_HANDLE, fence |-> VK_NULL_HANDLE, fenceAtSubmit |-> "none", recordingAtSubmit |-> FALSE]

\* CommandBuffer::CommandBuffer: a buffer of some queue type, recording at
\* once when `begin` is set.  The caller's fences exist, in either state.
InitCmd ==
    /\ queueType \in QueueTypes
    /\ fences \in [FenceHandles -> {"none", "unsignalled", "signalled"}]
    /\ \A f \in FenceHandles : (fences[f] = "none") <=> (f \notin CallerFences)
    /\ pending = <<>>
    /\ lastSubmit = NoSubmission
    /\ nSubmits = 0
    /\ nextFence = 0
    /\ \E begin \in BOOLEAN :
          LET w0 == [commandBuffer |-> <<"commandBuffer">>, running |-> FALSE,
                     recCalls |-> <<>>, fences |-> fences, pending |-> <<>>,
                     lastSubmit |-> NoSubmission, nSubmits |-> 0, nextFence |-> 0]
              w == IF begin THEN Begin(w0) ELSE w0
          IN /\ running = w.running
             /\ recCalls = w.recCalls
    /\ pcCmd = "ready"
    /\ lastCall = [op |-> "CommandBuffer"]

\* The command layer at rest, for the specifications of the other subsystems.
IdleCmd ==
    /\ queueType = "VK_QUEUE_GRAPHICS_BIT"
    /\ running = FALSE
    /\ recCalls = <<>>
    /\ nSubmits = 0
    /\ nextFence = 0
    /\ pcCmd = "ready"
    /\ lastCall = [op |-> "none"]

CallBegin ==
    /\ pcCmd = "ready"
    /\ running \/ Len(recCalls) < MaxRecCalls
    /\ SetCmdWorld(Begin(CmdWorld))
    /\ lastCall' = [op |-> "Begin", wasRunning |-> running]
    /\ UNCHANGED <<queueType, pcCmd, cmdOthers>>

CallEnd ==
    /\ pcCmd = "ready"
    /\ ~running \/ Len(recCalls) < MaxRecCalls
    /\ SetCmdWorld(End(CmdWorld))
    /\ lastCall' = [op |-> "End", wasRunning |-> running]
    /\ UNCHANGED <<queueType, pcCmd, cmdOthers>>

\* CommandBuffer::Submit.  The fence is not tested beyond null: one that a
\* pending submission still uses is reset and submitted again.
CallSubmit ==
    /\ pcCmd = "ready"
    /\ nSubmits < MaxSubmits
    /\ ~running \/ Len(recCalls) < MaxRecCalls
    /\ \E waitSemaphore \in Semaphores \cup {VK_NULL_HANDLE},
          signalSemaphore \in Semaphores \cup {VK_NULL_HANDLE},
          fence \in CallerFences \cup {VK_NULL_HANDLE} :
          LET w == SubmitBody(CmdWorld, queueType, waitSemaphore, signalSemaphore, fence)
             IN IF w.lastSubmit.queue = VK_NULL_HANDLE
                THEN \* vkQueueSubmit on a null queue: the process dies
                     /\ pcCmd' = "crashed"
                     /\ SetCmdWorld([w EXCEPT !.pending = pending])
                     /\ lastCall' = lastCall
                ELSE /\ pcCmd' = "ready"
                     /\ SetCmdWorld(w)
                     /\ lastCall' = [op |-> "Submit", waitSemaphore |-> waitSemaphore,
                                     signalSemaphore |-> signalSemaphore, fence |-> fence,
                                     seq |-> w.lastSubmit.seq]
    /\ UNCHANGED <<queueType, cmdOthers>>

\* SubmitIdle up to its vkWaitForFences, where the calling thread blocks.
CallSubmitIdle ==
    /\ pcCmd = "ready"
    /\ nSubmits < MaxSubmits
    /\ nextFence < MaxIdleFences
    /\ ~running \/ Len(recCalls) < MaxRecCalls
    /\ LET w == SubmitIdleBody(CmdWorld, queueType)
       IN IF w.lastSubmit.queue = VK_NULL_HANDLE
          THEN /\ pcCmd' = "crashed"
               /\ SetCmdWorld([w EXCEPT !.pending = pending])
          ELSE /\ pcCmd' = "SubmitIdle_wait"
               /\ SetCmdWorld(w)
    /\ UNCHANGED <<queueType, lastCall, cmdOthers>>

\* SubmitIdle from the return of vkWaitForFences: lines 74-77.
ReturnSubmitIdle ==
    /\ pcCmd = "SubmitIdle_wait"
    /\ vkWaitForFences(fences, lastSubmit.fence)
    /\ fences' = [fences EXCEPT ![lastSubmit.fence] = "destroyed"]
    /\ pcCmd' = "ready"
    /\ lastCall' = [op |-> "SubmitIdle", fence |-> lastSubmit.fence, seq |-> lastSubmit.seq]
    /\ UNCHANGED <<queueType, running, recCalls, pending, lastSubmit, nSubmits,
                   nextFence, cmdOthers>>

\* The submissions the GPU has not completed yet.
Pending == {pending[k] : k \in DOMAIN pending}

\* The oldest pending submission of its queue.
OldestOfQueue(k) == \A j \in 1..(k - 1) : pending[j].queue # pending[k].queue

RemoveAt(q, k) == [j \in 1..(Len(q) - 1) |-> IF j < k THEN q[j] ELSE q[j + 1]]

\* The GPU completes a pending submission and signals its fence.  A queue
\* signals the fences of its submissions in submission order.
Complete(k) ==
    /\ OldestOfQueue(k)
    /\ pending' = RemoveAt(pending, k)
    /\ fences' = IF pending[k].fence = VK_NULL_HANDLE
                 THEN fences
                 ELSE [fences EXCEPT ![pending[k].fence] = "signalled"]

GpuComplete ==
    /\ pcCmd # "crashed"
    /\ \E k \in DOMAIN pending : Complete(k)
    /\ UNCHANGED <<queueType, running, recCalls, lastSubmit, nSubmits, nextFence,
                   pcCmd, lastCall, cmdOthers>>

NextCmd ==
    \/ CallBegin
    \/ CallEnd
    \/ CallSubmit
    \/ CallSubmitIdle
    \/ ReturnSubmitIdle
    \/ GpuComplete


-----------------------------------------------------------------------------
(***************************************************************************)
(* Render system, per-surface frame state: src/Graphics/Graphics.hpp.      *)
(* The per-frame protocol of RenderSystem::Update is modelled from the     *)
(* specification (sections 4.5, 4.6 and 5); it submits each frame through  *)
(* CommandBuffer::Begin and CommandBuffer::Submit above.                   *)
(***************************************************************************)

\* Bounds of the frame model.
NumSurfaces == 2      \* output surfaces
RingSize == 2         \* frames in flight: slots of a surface's ring

Surfaces == 1..NumSurfaces
Slots == 0..(RingSize - 1)

PresentComplete(s, i) == <<"presentComplete", s, i>>
RenderComplete(s, i) == <<"renderComplete", s, i>>
FlightFence(s, i) == <<"flightFence", s, i>>
FrameCommandBuffer(s, i) == <<"commandBuffer", s, i>>

\* RenderSystem::PerSurfaceBuffers, Graphics.hpp lines 121-130: the ring of a
\* surface, with currentFrame = 0 and framebufferResized = false.
PerSurfaceBuffers(s) ==
    [presentCompletes |-> [i \in Slots |-> PresentComplete(s, i)],
     renderCompletes |-> [i \in Slots |-> RenderComplete(s, i)],
     flightFences |-> [i \in Slots |-> FlightFence(s, i)],
     commandBuffers |-> [i \in Slots |-> [commandBuffer |-> FrameCommandBuffer(s, i),
                                          running |-> FALSE]],
     currentFrame |-> 0,
     framebufferResized |-> FALSE]

\* The fences of a new ring are created signalled, so that the first wait on
\* each slot returns.
NewRingFences(fs, s) ==
    [f \in DOMAIN fs |-> IF \E i \in Slots : f = FlightFence(s, i) THEN "signalled" ELSE fs[f]]

\* The world the command buffer of slot i of surface s lives in.
FrameWorld(s, i) ==
    [commandBuffer |-> FrameCommandBuffer(s, i),
     running |-> perSurfaceBuffers[s].commandBuffers[i].running,
     recCalls |-> <<>>, fences |-> fences, pending |-> pending,
     lastSubmit |-> lastSubmit, nSubmits |-> 0, nextFence |-> 0]

SetFrameWorld(s, i, w) ==
    /\ perSurfaceBuffers' =
          [perSurfaceBuffers EXCEPT ![s].commandBuffers[i].running = w.running]
    /\ fences' = w.fences
    /\ pending' = w.pending
    /\ lastSubmit' = w.lastSubmit

InitFrame ==
    /\ perSurfaceBuffers = [s \in Surfaces |-> PerSurfaceBuffers(s)]
    /\ swapchains = [s \in Surfaces |-> 0]
    /\ fences = [f \in {FlightFence(s, i) : s \in Surfaces, i \in Slots} |-> "signalled"]
    /\ pending = <<>>
    /\ lastSubmit = NoSubmission
    /\ pcFrame = [surface |-> 1, step |-> "wait"]

\* The render system at rest, for the specifications of the other subsystems.
IdleFrame ==
    /\ perSurfaceBuffers = [s \in Surfaces |-> PerSurfaceBuffers(s)]
    /\ swapchains = [s \in Surfaces |-> 0]
    /\ pcFrame = [surface |-> 1, step |-> "wait"]

\* RenderSystem::SetFramebufferResized, Graphics.hpp line 110.
SetFramebufferResized_AlsoRewinds(id) ==
    /\ perSurfaceBuffers' = [perSurfaceBuffers EXCEPT ![id].framebufferResized = TRUE,
                                                      ![id].currentFrame = 0]
    /\ UNCHANGED <<swapchains, pcFrame, deviceVars, frameOthers>>

SetFramebufferResized(id) ==
    /\ perSurfaceBuffers' = [perSurfaceBuffers EXCEPT ![id].framebufferResized = TRUE]
    /\ UNCHANGED <<swapchains, pcFrame, deviceVars, frameOthers>>

\* The windowing collaborator reports a resize of some surface.
ResizeCallback == \E id \in Surfaces : SetFramebufferResized(id)

CurrentSlot(s) == perSurfaceBuffers[s].currentFrame

NextSurface(s) == IF s = NumSurfaces THEN 1 ELSE s + 1

\* Step 0 of the frame: wait on the fence of the ring slot about to be reused.
FrameWaitFence ==
    /\ pcFrame.step = "wait"
    /\ LET s == pcFrame.surface
       IN vkWaitForFences(fences, perSurfaceBuffers[s].flightFences[CurrentSlot(s)])
    /\ pcFrame' = [pcFrame EXCEPT !.step = "acquire"]
    /\ UNCHANGED <<perSurfaceBuffers, swapchains, deviceVars, frameOthers>>

\* Step 1: acquire the next swapchain image; out of date leads to recreation.
FrameAcquire ==
    /\ pcFrame.step = "acquire"
    /\ \E result \in {"VK_SUCCESS", "VK_ERROR_OUT_OF_DATE_KHR"} :
          pcFrame' = [pcFrame EXCEPT !.step = IF result = "VK_SUCCESS"
                                               THEN "record" ELSE "recreate"]
    /\ UNCHANGED <<perSurfaceBuffers, swapchains, deviceVars, frameOthers>>

\* Step 2: the render stages record into the slot's command buffer.
FrameRecord ==
    /\ pcFrame.step = "record"
    /\ LET s == pcFrame.surface
           i == CurrentSlot(s)
       IN SetFrameWorld(s, i, Begin(FrameWorld(s, i)))
    /\ pcFrame' = [pcFrame EXCEPT !.step = "submit"]
    /\ UNCHANGED <<swapchains, frameOthers>>

\* Step 3: submit, present-semaphore as wait, render-semaphore as signal,
\* gated on the slot's fence.
FrameSubmit ==
    /\ pcFrame.step = "submit"
    /\ LET s == pcFrame.surface
           i == CurrentSlot(s)
           psb == perSurfaceBuffers[s]
       IN SetFrameWorld(s, i, SubmitBody(FrameWorld(s, i), "VK_QUEUE_GRAPHICS_BIT",
                                         psb.presentCompletes[i], psb.renderCompletes[i],
                                         psb.flightFences[i]))
    /\ pcFrame' = [pcFrame EXCEPT !.step = "present"]
    /\ UNCHANGED <<swapchains, frameOthers>>

\* Step 4: present.  Out of date, or a resize seen, leads to recreation; else
\* the ring advances and the thread goes on to the next surface.
FramePresent ==
    /\ pcFrame.step = "present"
    /\ LET s == pcFrame.surface
       IN \E result \in {"VK_SUCCESS", "VK_ERROR_OUT_OF_DATE_KHR"} :
             IF result = "VK_ERROR_OUT_OF_DATE_KHR" \/ perSurfaceBuffers[s].framebufferResized
                THEN /\ pcFrame' = [pcFrame EXCEPT !.step = "recreate"]
                     /\ UNCHANGED perSurfaceBuffers
                ELSE /\ pcFrame' = [surface |-> NextSurface(s), step |-> "wait"]
                     /\ perSurfaceBuffers' =
                           [perSurfaceBuffers EXCEPT ![s].currentFrame = (@ + 1) % RingSize]
    /\ UNCHANGED <<swapchains, deviceVars, frameOthers>>

\* Recreation of a surface's swapchain and ring, once none of the surface's
\* submissions is pending.
FrameRecreate ==
    /\ pcFrame.step = "recreate"
    /\ LET s == pcFrame.surface
       IN /\ \A sub \in Pending : \A i \in Slots : sub.commandBuffer # FrameCommandBuffer(s, i)
          /\ swapchains' = [swapchains EXCEPT ![s] = 1 - @]
          /\ perSurfaceBuffers' = [perSurfaceBuffers EXCEPT ![s] = PerSurfaceBuffers(s)]
          /\ fences' = NewRingFences(fences, s)
          /\ pcFrame' = [surface |-> NextSurface(s), step |-> "wait"]
    /\ UNCHANGED <<pending, lastSubmit, frameOthers>>

FrameGpuComplete ==
    /\ \E k \in DOMAIN pending : Complete(k)
    /\ UNCHANGED <<perSurfaceBuffers, swapchains, pcFrame, lastSubmit, frameOthers>>

NextFrame ==
    \/ ResizeCallback
    \/ FrameWaitFence
    \/ FrameAcquire
    \/ FrameRecord
    \/ FrameSubmit
    \/ FramePresent
    \/ FrameRecreate
    \/ FrameGpuComplete

-----------------------------------------------------------------------------
(***************************************************************************)
(* Memory-backed resource layer: src/Graphics/Buffers/Buffer.cpp           *)
(***************************************************************************)

\* Bounds of the buffer model.
NumBuffers == 2        \* Buffer objects
MaxAllocations == 2    \* vmaCreateBuffer calls
NumMemoryTypes == 5    \* memory types of the device: indices 0..4

VK_MEMORY_PROPERTY_HOST_COHERENT_BIT == 4

BufferIds == 1..NumBuffers
AllocIds == 1..MaxAllocations
MemoryTypeIndices == 0..(NumMemoryTypes - 1)

MemoryUsages == {"VMA_MEMORY_USAGE_AUTO", "VMA_MEMORY_USAGE_AUTO_PREFER_HOST"}
AllocationFlagSets ==
    {{}, {"VMA_ALLOCATION_CREATE_HOST_ACCESS_SEQUENTIAL_WRITE_BIT"},
     {"VMA_ALLOCATION_CREATE_HOST_ACCESS_RANDOM_BIT"}}
HostAccessFlags ==
    {"VMA_ALLOCATION_CREATE_HOST_ACCESS_SEQUENTIAL_WRITE_BIT",
     "VMA_ALLOCATION_CREATE_HOST_ACCESS_RANDOM_BIT"}
InitialData == {<<>>, <<7, 9>>}

VkBufferHandle(n) == <<"VkBuffer", n>>
VmaAllocationHandle(n) == <<"VmaAllocation", n>>
MappedPointer(n) == <<"pMappedData", n>>
AllocOf(handle) == handle[2]

\* x & bit, for a mask of one bit.
BitAnd(x, bit) == IF (x \div bit) % 2 = 1 THEN bit ELSE 0

\* Buffer.hpp lines 79-83: the fields and their default values.
NoBuffer ==
    [life |-> "none", size_ |-> 0, buffer_ |-> VK_NULL_HANDLE, allocation_ |-> VK_NULL_HANDLE,
     mappedData_ |-> VK_NULL_HANDLE, persistentlyMapped_ |-> FALSE]

NoAllocation == [state |-> "none", hostVisible |-> FALSE, mapCount |-> 0, nFrees |-> 0]

\* The state a member function starts from; calls collects the allocator
\* calls it makes, in order.
BufWorld ==
    [buffers |-> buffers, vma |-> vma, nAllocs |-> nAllocs, fatal |-> bufFatal, calls |-> <<>>]

Call(w, name, a) == [w EXCEPT !.calls = Append(@, <<name, a>>)]

\* Buffer::MapMemory, lines 159-175.  vmaMapMemory fails on memory that is
\* not host-visible, and CheckVkResult ends the run.  Nothing tests
\* allocation_: on a moved-from buffer vmaMapMemory is handed the null
\* allocation (allocation 0 in the call log), which the allocator answers
\* with an error or by reading through the null pointer; the run ends either
\* way.
MapMemory(w, b) ==
    LET o == w.buffers[b]
        a == IF o.allocation_ = VK_NULL_HANDLE THEN 0 ELSE AllocOf(o.allocation_)
        w1 == Call(w, "vmaMapMemory", a)
    IN IF o.mappedData_ # VK_NULL_HANDLE
       THEN w
       ELSE IF o.allocation_ = VK_NULL_HANDLE
            THEN [w1 EXCEPT !.fatal = TRUE]
       ELSE IF ~w.vma[a].hostVisible
            THEN [w1 EXCEPT !.fatal = TRUE]
            ELSE [w1 EXCEPT !.vma[a].mapCount = @ + 1,
                            !.buffers[b].mappedData_ =
                                IF o.persistentlyMapped_ THEN @ ELSE MappedPointer(a)]

\* Buffer::UnmapMemory, lines 177-190.
UnmapMemory(w, b) ==
    LET o == w.buffers[b]
        a == AllocOf(o.allocation_)
    IN IF o.persistentlyMapped_
       THEN w
       ELSE IF o.mappedData_ # VK_NULL_HANDLE
            THEN [Call(w, "vmaUnmapMemory", a) EXCEPT
                     !.vma[a].mapCount = @ - 1,
                     !.buffers[b].mappedData_ = VK_NULL_HANDLE]
            ELSE w

\* Buffer::FlushMemory, lines 192-197.
FlushMemory(w, b) == Call(w, "vmaFlushAllocation", AllocOf(w.buffers[b].allocation_))

\* vmaDestroyBuffer: the allocation is freed.
vmaDestroyBuffer(w, allocation) ==
    LET a == AllocOf(allocation)
    IN [Call(w, "vmaDestroyBuffer", a) EXCEPT !.vma[a].state = "freed", !.vma[a].nFrees = @ + 1]

\* Buffer::Buffer, lines 10-96.  The allocator picks the memory type: its
\* index and whether it is host-visible.
Construct(w, b, size, memoryUsage, allocationFlags, data, memoryType, hostVisible) ==
    LET n == w.nAllocs + 1
        persistent == \/ memoryUsage = "VMA_MEMORY_USAGE_AUTO_PREFER_HOST"
                      \/ allocationFlags \cap HostAccessFlags # {}
        pMappedData == IF persistent /\ hostVisible THEN MappedPointer(n) ELSE VK_NULL_HANDLE
        w1 == [Call(w, "vmaCreateBuffer", n) EXCEPT
                 !.nAllocs = n,
                 !.vma[n] = [NoAllocation EXCEPT !.state = "live",
                                                 !.hostVisible = hostVisible],
                 !.buffers[b] = [life |-> "alive", size_ |-> size,
                                 buffer_ |-> VkBufferHandle(n),
                                 allocation_ |-> VmaAllocationHandle(n),
                                 mappedData_ |-> IF persistent THEN pMappedData ELSE VK_NULL_HANDLE,
                                 persistentlyMapped_ |-> persistent]]
        w2 == IF w1.buffers[b].mappedData_ = VK_NULL_HANDLE THEN MapMemory(w1, b) ELSE w1
        w3 == Call(w2, "std::ranges::copy", n)
        w4 == IF BitAnd(memoryType, VK_MEMORY_PROPERTY_HOST_COHERENT_BIT) = 0
              THEN FlushMemory(w3, b) ELSE w3
        w5 == IF ~persistent THEN UnmapMemory(w4, b) ELSE w4
    IN IF data = <<>> THEN w1
       ELSE IF w2.fatal THEN w2
       ELSE w5

\* Buffer::~Buffer, lines 98-113.
Destroy_NoUnmap(w, b) ==
    LET o == w.buffers[b]
    IN IF o.buffer_ # VK_NULL_HANDLE
       THEN LET w2 == vmaDestroyBuffer(w, o.allocation_)
            IN [w2 EXCEPT !.buffers[b].buffer_ = VK_NULL_HANDLE,
                          !.buffers[b].allocation_ = VK_NULL_HANDLE,
                          !.buffers[b].life = "destroyed"]
       ELSE [w EXCEPT !.buffers[b].life = "destroyed"]

Destroy(w, b) ==
    LET o == w.buffers[b]
    IN IF o.buffer_ # VK_NULL_HANDLE
       THEN LET w1 == IF o.mappedData_ # VK_NULL_HANDLE /\ ~o.persistentlyMapped_
                      THEN UnmapMemory(w, b) ELSE w
                w2 == vmaDestroyBuffer(w1, o.allocation_)
            IN [w2 EXCEPT !.buffers[b].buffer_ = VK_NULL_HANDLE,
                          !.buffers[b].allocation_ = VK_NULL_HANDLE,
                          !.buffers[b].life = "destroyed"]
       ELSE [w EXCEPT !.buffers[b].life = "destroyed"]

\* Buffer::Buffer(Buffer &&), lines 115-126.
MoveConstruct_SourceKept(w, dst, other) ==
    LET o == w.buffers[other]
    IN [w EXCEPT !.buffers[dst] = [o EXCEPT !.life = "alive"]]

MoveConstruct(w, dst, other) ==
    LET o == w.buffers[other]
    IN [w EXCEPT
          !.buffers[dst] = [life |-> "alive", size_ |-> o.size_, buffer_ |-> o.buffer_,
                            allocation_ |-> o.allocation_, mappedData_ |-> o.mappedData_,
                            persistentlyMapped_ |-> o.persistentlyMapped_],
          !.buffers[other] = [o EXCEPT !.buffer_ = VK_NULL_HANDLE,
                                       !.allocation_ = VK_NULL_HANDLE,
                                       !.mappedData_ = VK_NULL_HANDLE,
                                       !.size_ = 0]]

\* Buffer::operator=(Buffer &&), lines 128-157.
MoveAssign(w, dst, other) ==
    IF dst = other
    THEN w
    ELSE LET d == w.buffers[dst]
             w1 == IF d.buffer_ # VK_NULL_HANDLE
                   THEN vmaDestroyBuffer(
                            IF d.mappedData_ # VK_NULL_HANDLE /\ ~d.persistentlyMapped_
                            THEN UnmapMemory(w, dst) ELSE w,
                            d.allocation_)
                   ELSE w
             o == w1.buffers[other]
         IN [w1 EXCEPT
               !.buffers[dst] = [life |-> "alive", size_ |-> o.size_, buffer_ |-> o.buffer_,
                                 allocation_ |-> o.allocation_, mappedData_ |-> o.mappedData_,
                                 persistentlyMapped_ |-> o.persistentlyMapped_],
               !.buffers[other] = [o EXCEPT !.buffer_ = VK_NULL_HANDLE,
                                            !.allocation_ = VK_NULL_HANDLE,
                                            !.mappedData_ = VK_NULL_HANDLE,
                                            !.size_ = 0]]

SetBufWorld(w) ==
    /\ buffers' = w.buffers
    /\ vma' = w.vma
    /\ nAllocs' = w.nAllocs
    /\ bufFatal' = w.fatal

\* Objects are numbered in the order they come into being.
IsNextObject(b) ==
    /\ buffers[b].life = "none"
    /\ \A c \in BufferIds : buffers[c].life = "none" => b <= c

InitBuf ==
    /\ buffers = [b \in BufferIds |-> NoBuffer]
    /\ vma = [a \in AllocIds |-> NoAllocation]
    /\ nAllocs = 0
    /\ bufFatal = FALSE
    /\ lastBufOp = [op |-> "none", calls |-> <<>>]

BufConstruct ==
    /\ ~bufFatal
    /\ nAllocs < MaxAllocations
    /\ \E b \in BufferIds, memoryUsage \in MemoryUsages, allocationFlags \in AllocationFlagSets,
          data \in InitialData, memoryType \in MemoryTypeIndices,
          hostVisible \in BOOLEAN, hostCoherent \in BOOLEAN :
          /\ IsNextObject(b)
          /\ hostCoherent => hostVisible
          /\ allocationFlags \cap HostAccessFlags # {} => hostVisible
          /\ LET w == Construct(BufWorld, b, 2, memoryUsage, allocationFlags, data,
                                memoryType, hostVisible)
             IN /\ SetBufWorld(w)
                /\ lastBufOp' = [op |-> "Buffer", obj |-> b, calls |-> w.calls, data |-> data,
                                 allocation |-> nAllocs + 1, hostCoherent |-> hostCoherent]
    /\ UNCHANGED bufOthers

BufMoveConstruct ==
    /\ ~bufFatal
    /\ \E dst \in BufferIds, other \in BufferIds :
          /\ IsNextObject(dst)
          /\ buffers[other].life = "alive"
          /\ LET w == MoveConstruct(BufWorld, dst, other)
             IN /\ SetBufWorld(w)
                /\ lastBufOp' = [op |-> "MoveConstruct", obj |-> dst, calls |-> w.calls,
                                 other |-> other]
    /\ UNCHANGED bufOthers

BufMoveAssign ==
    /\ ~bufFatal
    /\ \E dst \in BufferIds, other \in BufferIds :
          /\ buffers[dst].life = "alive"
          /\ buffers[other].life = "alive"
          /\ LET w == MoveAssign(BufWorld, dst, other)
             IN /\ SetBufWorld(w)
                /\ lastBufOp' = [op |-> "MoveAssign", obj |-> dst, calls |-> w.calls,
                                 other |-> other]
    /\ UNCHANGED bufOthers

BufDestroy ==
    /\ ~bufFatal
    /\ \E b \in BufferIds :
          /\ buffers[b].life = "alive"
          /\ LET w == Destroy(BufWorld, b)
             IN /\ SetBufWorld(w)
                /\ lastBufOp' = [op |-> "~Buffer", obj |-> b, calls |-> w.calls,
                                 wasMapped |-> buffers[b].mappedData_ # VK_NULL_HANDLE,
                                 wasPersistent |-> buffers[b].persistentlyMapped_]
    /\ UNCHANGED bufOthers

\* MapMemory on any live buffer, a moved-from one included.
BufMapMemory ==
    /\ ~bufFatal
    /\ \E b \in BufferIds :
          /\ buffers[b].life = "alive"
          /\ LET w == MapMemory(BufWorld, b)
             IN /\ SetBufWorld(w)
                /\ lastBufOp' = [op |-> "MapMemory", obj |-> b, calls |-> w.calls]
    /\ UNCHANGED bufOthers

BufUnmapMemory ==
    /\ ~bufFatal
    /\ \E b \in BufferIds :
          /\ buffers[b].life = "alive"
          /\ LET w == UnmapMemory(BufWorld, b)
             IN /\ SetBufWorld(w)
                /\ lastBufOp' = [op |-> "UnmapMemory", obj |-> b, calls |-> w.calls]
    /\ UNCHANGED bufOthers

NextBuf ==
    \/ BufConstruct
    \/ BufMoveConstruct
    \/ BufMoveAssign
    \/ BufDestroy
    \/ BufMapMemory
    \/ BufUnmapMemory

\* The resource layer at rest, for the specifications of the other subsystems.
IdleBuf == InitBuf

-----------------------------------------------------------------------------
(***************************************************************************)
(* Physical device selection: src/Graphics/Devices/PhysicalDevice.cpp      *)
(***************************************************************************)

\* Bound of the selection model.
MaxDevices == 2        \* devices vkEnumeratePhysicalDevices reports

\* LogicalDevice.cpp line 10.
DeviceExtensions == {"VK_KHR_swapchain"}

DeviceTypes ==
    {"VK_PHYSICAL_DEVICE_TYPE_OTHER", "VK_PHYSICAL_DEVICE_TYPE_INTEGRATED_GPU",
     "VK_PHYSICAL_DEVICE_TYPE_DISCRETE_GPU", "VK_PHYSICAL_DEVICE_TYPE_VIRTUAL_GPU",
     "VK_PHYSICAL_DEVICE_TYPE_CPU"}

\* The packing of VkPhysicalDeviceProperties::apiVersion.
VK_MAKE_VERSION(major, minor, patch) == major * (2 ^ 22) + minor * (2 ^ 12) + patch
VK_VERSION_MAJOR(version) == version \div (2 ^ 22)
VK_VERSION_MINOR(version) == (version \div (2 ^ 12)) % (2 ^ 10)

Min(a, b) == IF a < b THEN a ELSE b

\* A memory heap: its size in MiB and VK_MEMORY_HEAP_DEVICE_LOCAL_BIT.
Heap(sizeMiB, deviceLocal) == [size |-> sizeMiB, deviceLocal |-> deviceLocal]

\* Lines 205-210: the sizes of the device-local heaps, summed (in MiB).
RECURSIVE TotalVRAM(_)
TotalVRAM(heaps) ==
    IF heaps = <<>> THEN 0
    ELSE (IF Head(heaps).deviceLocal THEN Head(heaps).size ELSE 0) + TotalVRAM(Tail(heaps))

\* Lines 157-174: the weight of the device type.
DeviceTypeScore_VirtualAsCpu(deviceType) ==
    CASE deviceType = "VK_PHYSICAL_DEVICE_TYPE_DISCRETE_GPU" -> 10000
      [] deviceType = "VK_PHYSICAL_DEVICE_TYPE_INTEGRATED_GPU" -> 1000
      [] deviceType = "VK_PHYSICAL_DEVICE_TYPE_VIRTUAL_GPU" -> 100
      [] deviceType = "VK_PHYSICAL_DEVICE_TYPE_CPU" -> 100
      [] OTHER -> 50

DeviceTypeScore(deviceType) ==
    CASE deviceType = "VK_PHYSICAL_DEVICE_TYPE_DISCRETE_GPU" -> 10000
      [] deviceType = "VK_PHYSICAL_DEVICE_TYPE_INTEGRATED_GPU" -> 1000
      [] deviceType = "VK_PHYSICAL_DEVICE_TYPE_VIRTUAL_GPU" -> 500
      [] deviceType = "VK_PHYSICAL_DEVICE_TYPE_CPU" -> 100
      [] OTHER -> 50

\* Lines 177-188: the bonus of the API version.
ApiVersionScore(apiVersion) ==
    IF VK_VERSION_MAJOR(apiVersion) >= 1
    THEN IF VK_VERSION_MINOR(apiVersion) >= 3 THEN 300
         ELSE IF VK_VERSION_MINOR(apiVersion) >= 2 THEN 200
         ELSE IF VK_VERSION_MINOR(apiVersion) >= 1 THEN 100
         ELSE 0
    ELSE 0

Bonus(flag, amount) == IF flag THEN amount ELSE 0

\* PhysicalDevice::EnumeratePhysicalDevice, lines 107-235.
EnumeratePhysicalDevice(device) ==
    IF ~(DeviceExtensions \subseteq device.extensions)
    THEN 0
    ELSE LET score ==
                 DeviceTypeScore(device.deviceType)
                 + ApiVersionScore(device.apiVersion)
                 + Bonus(device.timelineSemaphore, 50)
                 + Bonus(device.descriptorIndexing, 50)
                 + Bonus(device.bufferDeviceAddress, 50)
                 + Bonus(device.dynamicRendering, 50)
                 + Bonus(device.synchronization2, 50)
                 + Min(TotalVRAM(device.memoryHeaps) \div 1024, 16) * 10
                 + device.maxImageDimension2D \div 1000
                 + Bonus(device.maxComputeWorkGroupCount0 > 0, 20)
                 + Bonus(device.geometryShader, 10)
                 + Bonus(device.tessellationShader, 10)
         IN IF ~device.samplerAnisotropy THEN score \div 2 ELSE score

VkPhysicalDevice(i) == <<"VkPhysicalDevice", i>>

\* The devices that enter rankedDevices, lines 93-98.
RankedDevices(devices) ==
    {i \in 1..Len(devices) : EnumeratePhysicalDevice(devices[i]) > 0}

\* PhysicalDevice::ChoosePhysicalDevice, lines 88-105.  The multimap keeps
\* equal keys in insertion order, so rbegin() is the last device inserted
\* among those of the highest score.
ChoosePhysicalDevice_LastSuitable(devices) ==
    LET ranked == RankedDevices(devices)
    IN IF ranked = {}
       THEN VK_NULL_HANDLE
       ELSE VkPhysicalDevice(CHOOSE i \in ranked : \A j \in ranked : j <= i)

ChoosePhysicalDevice(devices) ==
    LET ranked == RankedDevices(devices)
        key(i) == EnumeratePhysicalDevice(devices[i])
    IN IF ranked = {}
       THEN VK_NULL_HANDLE
       ELSE VkPhysicalDevice(CHOOSE i \in ranked :
                \A j \in ranked : key(j) < key(i) \/ (key(j) = key(i) /\ j <= i))

\* Device descriptors: what the Vulkan queries of EnumeratePhysicalDevice
\* return for one device.
PlainDevice ==
    [extensions |-> DeviceExtensions,
     deviceType |-> "VK_PHYSICAL_DEVICE_TYPE_OTHER",
     apiVersion |-> VK_MAKE_VERSION(1, 0, 0),
     timelineSemaphore |-> FALSE, descriptorIndexing |-> FALSE,
     bufferDeviceAddress |-> FALSE, dynamicRendering |-> FALSE, synchronization2 |-> FALSE,
     memoryHeaps |-> <<>>, maxImageDimension2D |-> 0, maxComputeWorkGroupCount0 |-> 0,
     geometryShader |-> FALSE, tessellationShader |-> FALSE, samplerAnisotropy |-> FALSE]

ModernDevice ==
    [PlainDevice EXCEPT
        !.extensions = DeviceExtensions \cup {"VK_KHR_maintenance1"},
        !.apiVersion = VK_MAKE_VERSION(1, 3, 275),
        !.timelineSemaphore = TRUE, !.descriptorIndexing = TRUE,
        !.bufferDeviceAddress = TRUE, !.dynamicRendering = TRUE, !.synchronization2 = TRUE,
        !.memoryHeaps = <<Heap(8192, TRUE), Heap(16384, FALSE)>>,
        !.maxImageDimension2D = 16384, !.maxComputeWorkGroupCount0 = 65535,
        !.geometryShader = TRUE, !.tessellationShader = TRUE, !.samplerAnisotropy = TRUE]

DeviceCatalogue ==
    {PlainDevice,
     [PlainDevice EXCEPT !.extensions = {}],
     [PlainDevice EXCEPT !.deviceType = "VK_PHYSICAL_DEVICE_TYPE_CPU"],
     [PlainDevice EXCEPT !.deviceType = "VK_PHYSICAL_DEVICE_TYPE_CPU", !.samplerAnisotropy = TRUE],
     [ModernDevice EXCEPT !.deviceType = "VK_PHYSICAL_DEVICE_TYPE_DISCRETE_GPU"],
     [ModernDevice EXCEPT !.deviceType = "VK_PHYSICAL_DEVICE_TYPE_DISCRETE_GPU",
                          !.extensions = {"VK_KHR_maintenance1"}],
     [ModernDevice EXCEPT !.deviceType = "VK_PHYSICAL_DEVICE_TYPE_DISCRETE_GPU",
                          !.samplerAnisotropy = FALSE],
     [ModernDevice EXCEPT !.deviceType = "VK_PHYSICAL_DEVICE_TYPE_INTEGRATED_GPU",
                          !.memoryHeaps = <<Heap(32768, TRUE)>>],
     [ModernDevice EXCEPT !.deviceType = "VK_PHYSICAL_DEVICE_TYPE_INTEGRATED_GPU",
                          !.apiVersion = VK_MAKE_VERSION(1, 2, 0), !.dynamicRendering = FALSE,
                          !.synchronization2 = FALSE],
     [ModernDevice EXCEPT !.deviceType = "VK_PHYSICAL_DEVICE_TYPE_VIRTUAL_GPU",
                          !.apiVersion = VK_MAKE_VERSION(1, 1, 0)]}

RECURSIVE SeqsUpTo(_, _)
SeqsUpTo(S, n) ==
    IF n = 0 THEN {<<>>}
    ELSE LET shorter == SeqsUpTo(S, n - 1)
         IN shorter \cup {Append(q, x) : q \in shorter, x \in S}

InitDev ==
    /\ physicalDevices \in SeqsUpTo(DeviceCatalogue, MaxDevices)
    /\ physicalDevice = VK_NULL_HANDLE
    /\ pcDev = "start"
    /\ devError = ""

\* PhysicalDevice::PhysicalDevice, lines 16-29.
PhysicalDeviceCtor ==
    /\ pcDev = "start"
    /\ IF Len(physicalDevices) = 0
       THEN /\ pcDev' = "error"
            /\ devError' = "Failed to find GPUs with Vulkan support"
            /\ physicalDevice' = physicalDevice
       ELSE /\ physicalDevice' = ChoosePhysicalDevice(physicalDevices)
            /\ IF physicalDevice' = VK_NULL_HANDLE
               THEN pcDev' = "error" /\ devError' = "Failed to find a suitable GPU"
               ELSE pcDev' = "constructed" /\ devError' = devError
    /\ UNCHANGED <<physicalDevices, devOthers>>

NextDev == PhysicalDeviceCtor

\* No instance queried.
IdleDev ==
    /\ physicalDevices = <<>>
    /\ physicalDevice = VK_NULL_HANDLE
    /\ pcDev = "idle"
    /\ devError = ""

\* Descriptors that have every required extension, over the values of the
\* fields the score reads; the device type is filled in by ScoreVariants.
ApiVersions ==
    {VK_MAKE_VERSION(1, 0, 0), VK_MAKE_VERSION(1, 1, 0), VK_MAKE_VERSION(1, 2, 198),
     VK_MAKE_VERSION(1, 3, 0), VK_MAKE_VERSION(1, 4, 0)}
VramSizes == {512, 1024, 8192, 16384, 32768}
HeapLayouts ==
    {<<Heap(s, TRUE), Heap(16384, FALSE)>> : s \in VramSizes}
        \cup {<<Heap(s, TRUE), Heap(512, TRUE)>> : s \in VramSizes}
ImageDimensions == {0, 999, 4096, 16384}
WorkGroupCounts == {0, 65535}

ScoreInputs ==
    [extensions : {DeviceExtensions},
     deviceType : {"VK_PHYSICAL_DEVICE_TYPE_OTHER"},
     apiVersion : ApiVersions,
     timelineSemaphore : BOOLEAN, descriptorIndexing : BOOLEAN,
     bufferDeviceAddress : BOOLEAN, dynamicRendering : BOOLEAN, synchronization2 : BOOLEAN,
     memoryHeaps : HeapLayouts, maxImageDimension2D : ImageDimensions,
     maxComputeWorkGroupCount0 : WorkGroupCounts,
     geometryShader : BOOLEAN, tessellationShader : BOOLEAN, samplerAnisotropy : BOOLEAN]

NoScores == [t \in {} |-> 0]

InitScore ==
    /\ scoreInput \in ScoreInputs
    /\ typeScores = NoScores

\* EnumeratePhysicalDevice applied to the descriptor under each device type.
ScoreVariants ==
    /\ typeScores = NoScores
    /\ typeScores' = [t \in DeviceTypes |->
                         EnumeratePhysicalDevice([scoreInput EXCEPT !.deviceType = t])]
    /\ UNCHANGED <<scoreInput, scoreOthers>>

NextScore == ScoreVariants

IdleScore ==
    /\ scoreInput = PlainDevice
    /\ typeScores = NoScores

-----------------------------------------------------------------------------
(***************************************************************************)
(* Queue family resolution: src/Graphics/Devices/LogicalDevice.cpp         *)
(***************************************************************************)

\* Bound of the queue family model.
MaxFamilies == 2       \* queue families the device reports

QueueFlagBits ==
    {"VK_QUEUE_GRAPHICS_BIT", "VK_QUEUE_COMPUTE_BIT", "VK_QUEUE_TRANSFER_BIT",
     "VK_QUEUE_SPARSE_BINDING_BIT"}

\* VkQueueFamilyProperties: the fields the scan reads.
QueueFamilyProperties ==
    {[queueFlags |-> fl, queueCount |-> qc] : fl \in SUBSET QueueFlagBits, qc \in 0..1}

\* std::optional<uint32_t>
Nullopt == <<>>
Some(i) == <<i>>
ValueOf(opt) == opt[1]

\* Lines 31-32 and LogicalDevice.hpp lines 47-50: the locals and the members
\* before the scan.
ScanStart ==
    [GraphicsFamily |-> Nullopt, presentFamily |-> Nullopt, computeFamily |-> Nullopt,
     transferFamily |-> Nullopt, dedicatedTransferFamily |-> Nullopt,
     dedicatedComputeFamily |-> Nullopt,
     this |-> [GraphicsFamily |-> 0, presentFamily |-> 0, computeFamily |-> 0,
               transferFamily |-> 0, supportedQueues |-> {}]]

\* if (!local) { local = i; this->member = i; supportedQueues |= bit; }
FirstFound(st, local, i, bits) ==
    IF st[local] = Nullopt
    THEN [st EXCEPT ![local] = Some(i), !.this[local] = i,
                    !.this.supportedQueues = @ \cup bits]
    ELSE st

\* if (!dedicated && condition) dedicated = i;
FirstDedicated(st, dedicated, i, condition) ==
    IF st[dedicated] = Nullopt /\ condition THEN [st EXCEPT ![dedicated] = Some(i)] ELSE st

\* The body of the loop, lines 36-97, for family i.
ScanFamily(st, i, queueFamily) ==
    LET fl == queueFamily.queueFlags
        s1 == IF "VK_QUEUE_GRAPHICS_BIT" \in fl
              THEN FirstFound(st, "GraphicsFamily", i, {"VK_QUEUE_GRAPHICS_BIT"}) ELSE st
        s2 == IF queueFamily.queueCount > 0 /\ "VK_QUEUE_GRAPHICS_BIT" \in fl
              THEN FirstFound(s1, "presentFamily", i, {}) ELSE s1
        s3 == IF "VK_QUEUE_COMPUTE_BIT" \in fl
              THEN FirstDedicated(FirstFound(s2, "computeFamily", i, {"VK_QUEUE_COMPUTE_BIT"}),
                                  "dedicatedComputeFamily", i,
                                  "VK_QUEUE_GRAPHICS_BIT" \notin fl)
              ELSE s2
        s4 == IF "VK_QUEUE_TRANSFER_BIT" \in fl
              THEN FirstDedicated(FirstFound(s3, "transferFamily", i, {"VK_QUEUE_TRANSFER_BIT"}),
                                  "dedicatedTransferFamily", i,
                                  fl = {"VK_QUEUE_TRANSFER_BIT"})
              ELSE s3
    IN s4

\* The loop of lines 34-98 over the families 0 .. count-1.
RECURSIVE ScanFamilies(_, _, _)
ScanFamilies(st, families, i) ==
    IF i >= Len(families) THEN st
    ELSE ScanFamilies(ScanFamily(st, i, families[i + 1]), families, i + 1)

\* Lines 100-111: a dedicated family, when found, replaces the member.
PreferDedicated_KeepFirst(st, member, dedicated) == st

PreferDedicated(st, member, dedicated) ==
    IF st[dedicated] # Nullopt
    THEN [st EXCEPT !.this[member] = ValueOf(st[dedicated])]
    ELSE st

\* Lines 116-120: the exception thrown, "" when none is.
Thrown_GraphicsOnly(st) ==
    IF st.GraphicsFamily = Nullopt
    THEN "Failed to find queue family supporting VK_QUEUE_GRAPHICS_BIT"
    ELSE ""

Thrown(st) ==
    IF st.GraphicsFamily = Nullopt
    THEN "Failed to find queue family supporting VK_QUEUE_GRAPHICS_BIT"
    ELSE IF st.presentFamily = Nullopt
    THEN "Failed to find queue family supporting present"
    ELSE ""

\* LogicalDevice::CreateQueueIndices, lines 25-127: the state after the scan
\* and the overrides, the exception thrown and the warnings logged.
CreateQueueIndices(families) ==
    LET st == PreferDedicated(
                  PreferDedicated(ScanFamilies(ScanStart, families, 0),
                                  "computeFamily", "dedicatedComputeFamily"),
                  "transferFamily", "dedicatedTransferFamily")
        thrown == Thrown(st)
        warnings == IF thrown # "" THEN {}
                    ELSE (IF st.computeFamily = Nullopt
                          THEN {"No compute queue family found"} ELSE {})
                         \cup (IF st.transferFamily = Nullopt
                               THEN {"No transfer queue family found"} ELSE {})
    IN [this |-> st.this, thrown |-> thrown, warnings |-> warnings]

-----------------------------------------------------------------------------
(***************************************************************************)
(* Logical device creation: src/Graphics/Devices/LogicalDevice.cpp         *)
(***************************************************************************)

\* Bound of the device creation model.
MaxVaried == 2     \* features in which a device differs from one offering none, or all

\* The members of the four feature structs the function reads.
CoreFeatures ==
    {"sampleRateShading", "fillModeNonSolid", "wideLines", "samplerAnisotropy",
     "textureCompressionBC", "textureCompressionASTC_LDR", "textureCompressionETC2",
     "vertexPipelineStoresAndAtomics", "fragmentStoresAndAtomics",
     "shaderStorageImageExtendedFormats", "shaderStorageImageWriteWithoutFormat",
     "geometryShader", "tessellationShader", "multiViewport"}
Vulkan11Features == {"shaderDrawParameters"}
DescriptorIndexingFeatures ==
    {"shaderSampledImageArrayNonUniformIndexing", "runtimeDescriptorArray",
     "descriptorBindingPartiallyBound", "descriptorBindingVariableDescriptorCount"}
Vulkan12Features ==
    {"timelineSemaphore", "descriptorIndexing", "bufferDeviceAddress", "scalarBlockLayout",
     "hostQueryReset"} \cup DescriptorIndexingFeatures
Vulkan13Features == {"dynamicRendering", "synchronization2", "maintenance4"}
AllFeatures == CoreFeatures \cup Vulkan11Features \cup Vulkan12Features \cup Vulkan13Features

\* The four structs of a feature chain, from the set of members that are VK_TRUE.
FeatureChain(S) ==
    [features |-> S \cap CoreFeatures, vulkan11 |-> S \cap Vulkan11Features,
     vulkan12 |-> S \cap Vulkan12Features, vulkan13 |-> S \cap Vulkan13Features]

NoFeatures == FeatureChain({})

\* if (available.f) requested.f = VK_TRUE;
Request_Unchecked(available, f) == {f}

Request(available, f) == IF f \in available THEN {f} ELSE {}

\* if (!available.f) Log::Warning(message);
WarnUnless(available, f, message) == IF f \in available THEN {} ELSE {message}

\* Lines 170-233: the core features requested.
RequestedFeatures(available) ==
    Request(available, "sampleRateShading")
    \cup (IF "fillModeNonSolid" \in available
          THEN {"fillModeNonSolid"} \cup Request(available, "wideLines")
          ELSE {})
    \cup Request(available, "samplerAnisotropy")
    \cup (IF "textureCompressionBC" \in available THEN {"textureCompressionBC"}
          ELSE IF "textureCompressionASTC_LDR" \in available THEN {"textureCompressionASTC_LDR"}
          ELSE IF "textureCompressionETC2" \in available THEN {"textureCompressionETC2"}
          ELSE {})
    \cup Request(available, "vertexPipelineStoresAndAtomics")
    \cup Request(available, "fragmentStoresAndAtomics")
    \cup Request(available, "shaderStorageImageExtendedFormats")
    \cup Request(available, "shaderStorageImageWriteWithoutFormat")
    \cup Request(available, "geometryShader")
    \cup Request(available, "tessellationShader")
    \cup Request(available, "multiViewport")

\* The warnings of lines 181-233.
FeatureWarnings(available) ==
    WarnUnless(available, "fillModeNonSolid", "Selected GPU does not support wireframe pipelines!")
    \cup WarnUnless(available, "samplerAnisotropy", "Selected GPU does not support sampler anisotropy!")
    \cup WarnUnless(available, "vertexPipelineStoresAndAtomics",
                    "Selected GPU does not support vertex pipeline stores and atomics!")
    \cup WarnUnless(available, "fragmentStoresAndAtomics",
                    "Selected GPU does not support fragment stores and atomics!")
    \cup WarnUnless(available, "shaderStorageImageExtendedFormats",
                    "Selected GPU does not support shader storage extended formats!")
    \cup WarnUnless(available, "shaderStorageImageWriteWithoutFormat",
                    "Selected GPU does not support shader storage write without format!")
    \cup WarnUnless(available, "geometryShader", "Selected GPU does not support geometry shaders!")
    \cup WarnUnless(available, "tessellationShader", "Selected GPU does not support tessellation shaders!")
    \cup WarnUnless(available, "multiViewport", "Selected GPU does not support multi viewports!")

\* Lines 239-244.
Requested11Features(available) == Request(available, "shaderDrawParameters")

\* Lines 246-287: the descriptor indexing members are copied from the
\* available struct once descriptorIndexing is there.
Requested12Features(available) ==
    Request(available, "timelineSemaphore")
    \cup (IF "descriptorIndexing" \in available
          THEN {"descriptorIndexing"} \cup (available \cap DescriptorIndexingFeatures)
          ELSE {})
    \cup Request(available, "bufferDeviceAddress")
    \cup Request(available, "scalarBlockLayout")
    \cup Request(available, "hostQueryReset")

\* Lines 289-310.
Requested13Features(available) ==
    Request(available, "dynamicRendering")
    \cup Request(available, "synchronization2")
    \cup Request(available, "maintenance4")

\* Lines 131-146: one VkDeviceQueueCreateInfo per distinct family index.
QueueCreateInfos(indices) ==
    {[queueFamilyIndex |-> i, queueCount |-> 1] :
        i \in {indices.GraphicsFamily, indices.presentFamily,
               indices.computeFamily, indices.transferFamily}}

\* Lines 312-324: the VkDeviceCreateInfo, its pNext chain gathered with
\* pEnabledFeatures.
DeviceCreateInfo(indices, available) ==
    [queueCreateInfos |-> QueueCreateInfos(indices),
     enabledExtensions |-> DeviceExtensions,
     requested |-> [features |-> RequestedFeatures(available.features),
                    vulkan11 |-> Requested11Features(available.vulkan11),
                    vulkan12 |-> Requested12Features(available.vulkan12),
                    vulkan13 |-> Requested13Features(available.vulkan13)]]

NoCreateInfo == [queueCreateInfos |-> {}, enabledExtensions |-> {}, requested |-> NoFeatures]

\* The subsets of S with at most k elements.
RECURSIVE SubsetsUpTo(_, _)
SubsetsUpTo(S, k) ==
    IF k = 0 THEN {{}}
    ELSE LET P == SubsetsUpTo(S, k - 1) IN P \cup {p \cup {x} : p \in P, x \in S}

\* The devices of the model: they offer at most MaxVaried features, or all
\* but at most MaxVaried.
FeatureSets ==
    SubsetsUpTo(AllFeatures, MaxVaried)
    \cup {AllFeatures \ S : S \in SubsetsUpTo(AllFeatures, MaxVaried)}

\* LogicalDevice::CreateLogicalDevice, lines 129-328, up to the result of
\* vkCreateDevice, which CheckVkResult turns into an exception.  It reads the
\* family indices CreateQueueIndices left in the members.
CreateLogicalDevice(indices, result) ==
    /\ deviceCreateInfo' = DeviceCreateInfo(indices, availableFeatures)
    /\ ldLog' = FeatureWarnings(availableFeatures.features)
    /\ IF result = "VK_SUCCESS"
       THEN /\ logicalDevice' = <<"VkDevice", 1>>
            /\ pcLd' = "created"
       ELSE /\ logicalDevice' = logicalDevice
            /\ pcLd' = "error"

\* LogicalDevice::LogicalDevice, lines 12-17: CreateQueueIndices() and then
\* CreateLogicalDevice(), which is not reached when the first one throws.
CallCreateQueueIndices(result) ==
    /\ pcQueue = "start"
    /\ LET r == CreateQueueIndices(queueFamilies)
       IN /\ queueIndices' = r.this
          /\ queueLog' = [thrown |-> r.thrown, warnings |-> r.warnings]
          /\ IF r.thrown = ""
             THEN /\ pcQueue' = "done"
                  /\ CreateLogicalDevice(r.this, result)
             ELSE /\ pcQueue' = "error"
                  /\ UNCHANGED <<deviceCreateInfo, logicalDevice, pcLd, ldLog>>
    /\ UNCHANGED <<queueFamilies, availableFeatures, queueOthers>>

NextQueue ==
    \E result \in {"VK_SUCCESS", "VK_ERROR_FEATURE_NOT_PRESENT"} : CallCreateQueueIndices(result)

NextLd == NextQueue

\* A device reporting any families, offering no feature or every feature.
InitQueue ==
    /\ queueFamilies \in SeqsUpTo(QueueFamilyProperties, MaxFamilies)
    /\ queueIndices = ScanStart.this
    /\ pcQueue = "start"
    /\ queueLog = [thrown |-> "", warnings |-> {}]
    /\ availableFeatures \in {FeatureChain({}), FeatureChain(AllFeatures)}
    /\ deviceCreateInfo = NoCreateInfo
    /\ logicalDevice = <<"VK_NULL_HANDLE">>
    /\ pcLd = "start"
    /\ ldLog = {}

\* The family layouts of the devices whose features vary: one family for
\* everything, a dedicated compute family, a dedicated transfer family, and
\* a device without a graphics family.
LdFamilies ==
    LET family(fl) == [queueFlags |-> fl, queueCount |-> 1]
        all == {"VK_QUEUE_GRAPHICS_BIT", "VK_QUEUE_COMPUTE_BIT", "VK_QUEUE_TRANSFER_BIT"}
    IN  { <<family(all)>>,
          <<family(all), family({"VK_QUEUE_COMPUTE_BIT"})>>,
          <<family(all), family({"VK_QUEUE_TRANSFER_BIT"})>>,
          <<family({"VK_QUEUE_COMPUTE_BIT"})>> }

\* A device of one of these layouts, offering any of the feature sets.
InitLd ==
    /\ queueFamilies \in LdFamilies
    /\ queueIndices = ScanStart.this
    /\ pcQueue = "start"
    /\ queueLog = [thrown |-> "", warnings |-> {}]
    /\ availableFeatures \in {FeatureChain(S) : S \in FeatureSets}
    /\ deviceCreateInfo = NoCreateInfo
    /\ logicalDevice = <<"VK_NULL_HANDLE">>
    /\ pcLd = "start"
    /\ ldLog = {}

\* No logical device under construction.
IdleQueue ==
    /\ queueFamilies = <<>>
    /\ queueIndices = ScanStart.this
    /\ pcQueue = "idle"
    /\ queueLog = [thrown |-> "", warnings |-> {}]
    /\ availableFeatures = NoFeatures
    /\ deviceCreateInfo = NoCreateInfo
    /\ logicalDevice = <<"VK_NULL_HANDLE">>
    /\ pcLd = "idle"
    /\ ldLog = {}

-----------------------------------------------------------------------------
(***************************************************************************)
(* Shader reflection: src/Graphics/Shaders/Shader.cpp                      *)
(***************************************************************************)

\* Bounds of the reflection model.
MaxReflections == 2    \* modules added to one shader and reflected
MaxReloads == 1        \* Reload calls on one shader

ShaderStages ==
    {"VK_SHADER_STAGE_VERTEX_BIT", "VK_SHADER_STAGE_FRAGMENT_BIT", "VK_SHADER_STAGE_COMPUTE_BIT"}

\* The numeric value of a VkDescriptorType: std::map iterates in this order.
DescriptorTypeValue(type) ==
    CASE type = "VK_DESCRIPTOR_TYPE_COMBINED_IMAGE_SAMPLER" -> 1
      [] type = "VK_DESCRIPTOR_TYPE_UNIFORM_BUFFER" -> 6
      [] type = "VK_DESCRIPTOR_TYPE_STORAGE_BUFFER" -> 7

\* A std::map / unordered_map: a function on the keys present.
EmptyMap == [k \in {} |-> {}]
Put(map, key, value) == [k \in DOMAIN map \cup {key} |-> IF k = key THEN value ELSE map[k]]

\* What SPIRV-Reflect reports for a descriptor binding.
Block(name, size, members) == [name |-> name, size |-> size, members |-> members]
UniformBuffer(name, binding, type, size) ==
    [name |-> name, binding |-> binding, descriptor_type |-> type, count |-> 1,
     decoration_flags |-> {},
     block |-> Block(name, size, <<[name |-> "viewProj", offset |-> 0, size |-> 64]>>)]
StorageBuffer(name, binding, flags, size, members) ==
    [name |-> name, binding |-> binding,
     descriptor_type |-> "VK_DESCRIPTOR_TYPE_STORAGE_BUFFER", count |-> 1,
     decoration_flags |-> flags, block |-> Block(name, size, members)]
Sampler(name, binding) ==
    [name |-> name, binding |-> binding,
     descriptor_type |-> "VK_DESCRIPTOR_TYPE_COMBINED_IMAGE_SAMPLER", count |-> 1,
     decoration_flags |-> {}, block |-> Block("", 0, <<>>)]

\* The blobs of the model, as SPIRV-Reflect sees them: ok is the result of
\* spvReflectCreateShaderModule.  The fourth blob declares a readonly storage
\* buffer, two of whose members carry the same name, and a writeonly one.
ShaderBlobs ==
    << [ok |-> TRUE,
        bindings |-> <<UniformBuffer("CameraUBO", 0, "VK_DESCRIPTOR_TYPE_UNIFORM_BUFFER", 64)>>,
        pushConstants |-> <<[offset |-> 0, size |-> 64]>>,
        inputs |-> <<[name |-> "inPosition", location |-> 0, built_in |-> -1, width |-> 32,
                      format |-> "VK_FORMAT_R32G32B32_SFLOAT"],
                     [name |-> "gl_VertexIndex", location |-> 0, built_in |-> 42, width |-> 32,
                      format |-> "VK_FORMAT_R32_SINT"]>>],
       [ok |-> TRUE,
        bindings |-> <<UniformBuffer("CameraUBO", 0, "VK_DESCRIPTOR_TYPE_UNIFORM_BUFFER", 64),
                       Sampler("albedo", 1)>>,
        pushConstants |-> <<[offset |-> 0, size |-> 64], [offset |-> 64, size |-> 16]>>,
        inputs |-> <<[name |-> "inUV", location |-> 1, built_in |-> -1, width |-> 32,
                      format |-> "VK_FORMAT_R32G32_SFLOAT"]>>],
       [ok |-> TRUE,
        bindings |-> <<Sampler("albedo", 1)>>,
        pushConstants |-> <<>>,
        inputs |-> <<>>],
       [ok |-> TRUE,
        bindings |-> <<StorageBuffer("Lights", 0, {"SPV_REFLECT_DECORATION_NON_WRITABLE"}, 128,
                                     <<[name |-> "light", offset |-> 0, size |-> 4],
                                       [name |-> "light", offset |-> 16, size |-> 8],
                                       [name |-> "count", offset |-> 24, size |-> 4]>>),
                       StorageBuffer("Visible", 2, {"SPV_REFLECT_DECORATION_NON_READABLE"}, 16,
                                     <<[name |-> "indices", offset |-> 0, size |-> 16]>>)>>,
        pushConstants |-> <<>>,
        inputs |-> <<>>],
       [ok |-> TRUE,
        bindings |-> <<UniformBuffer("CameraUBO", 1, "VK_DESCRIPTOR_TYPE_UNIFORM_BUFFER", 64)>>,
        pushConstants |-> <<>>,
        inputs |-> <<>>],
       [ok |-> FALSE, bindings |-> <<>>, pushConstants |-> <<>>, inputs |-> <<>>] >>

\* Shader.hpp lines 240-252: a Shader before any reflection.  moduleInfos
\* holds the stage of each module.
NewShader ==
    [moduleInfos |-> <<>>, uniforms |-> EmptyMap, uniformBlocks |-> EmptyMap, attributes |-> EmptyMap,
     pushConstants |-> <<>>, descriptorBindings |-> <<>>, descriptorPools |-> <<>>,
     attributeDescriptions |-> <<>>, descriptorLocations |-> EmptyMap,
     descriptorSizes |-> EmptyMap, descriptorTypes |-> EmptyMap, lastDescriptorBinding |-> 0]

\* flags |= stage
MergeStage_Overwrite(flags, stage) == {stage}

MergeStage(flags, stage) == flags \cup {stage}

\* The first index of a sequence whose element satisfies Test, 0 when none
\* does: std::find_if.
FindIf(seq, Test(_)) ==
    IF \E k \in DOMAIN seq : Test(seq[k])
    THEN CHOOSE k \in DOMAIN seq : Test(seq[k]) /\ \A j \in 1..(k - 1) : ~Test(seq[j])
    ELSE 0

\* Lines 289-301: the members 1..k in order, a later member replacing an
\* earlier one of the same name.
RECURSIVE MemberInfos(_, _, _)
MemberInfos(members, stage, k) ==
    IF k = 0 THEN EmptyMap
    ELSE Put(MemberInfos(members, stage, k - 1), members[k].name,
             [binding |-> 0, offset |-> members[k].offset, size |-> members[k].size,
              type |-> "VK_DESCRIPTOR_TYPE_UNIFORM_BUFFER", stageFlags |-> {stage},
              readOnly |-> FALSE, writeOnly |-> FALSE])

\* Shader::LoadUniformBlock, lines 280-304.
LoadUniformBlock(sh, block, stage) ==
    [sh EXCEPT !.uniformBlocks =
        Put(@, block.name,
            [binding |-> -1, size |-> block.size, stageFlags |-> {stage}, type |-> "Uniform",
             uniforms |-> MemberInfos(block.members, stage, Len(block.members))])]

\* The body of the loop over the descriptor bindings, lines 132-193. r holds
\* the shader and the descriptorPoolCounts of this call.
ReflectBinding(r, binding, stage) ==
    LET sh == r.shader
        type == binding.descriptor_type
        s1 == IF binding.name \in DOMAIN sh.uniforms
              THEN [sh EXCEPT !.uniforms[binding.name].stageFlags = MergeStage(@, stage)]
              ELSE [sh EXCEPT
                      !.uniforms = Put(@, binding.name,
                          [binding |-> binding.binding, offset |-> 0,
                           size |-> binding.block.size, type |-> type,
                           stageFlags |-> {stage},
                           readOnly |-> "SPV_REFLECT_DECORATION_NON_WRITABLE"
                                            \in binding.decoration_flags,
                           writeOnly |-> "SPV_REFLECT_DECORATION_NON_READABLE"
                                            \in binding.decoration_flags]),
                      !.descriptorLocations = Put(@, binding.name, binding.binding),
                      !.descriptorSizes = Put(@, binding.name, binding.block.size),
                      !.descriptorTypes = Put(@, binding.binding, type)]
        s2 == [s1 EXCEPT !.lastDescriptorBinding =
                            IF @ < binding.binding THEN binding.binding ELSE @]
        SameBinding(b) == b.binding = binding.binding
        at == FindIf(s2.descriptorBindings, SameBinding)
        s3 == IF at # 0
              THEN [s2 EXCEPT !.descriptorBindings[at].stageFlags = MergeStage(@, stage)]
              ELSE [s2 EXCEPT !.descriptorBindings =
                        Append(@, [binding |-> binding.binding, descriptorType |-> type,
                                   descriptorCount |-> binding.count, stageFlags |-> {stage}])]
        counts == IF at # 0 THEN r.poolCounts
                  ELSE Put(r.poolCounts, type,
                           IF type \in DOMAIN r.poolCounts THEN r.poolCounts[type] + 1 ELSE 1)
        s4 == IF type \in {"VK_DESCRIPTOR_TYPE_UNIFORM_BUFFER", "VK_DESCRIPTOR_TYPE_STORAGE_BUFFER"}
              THEN LoadUniformBlock(s3, binding.block, stage)
              ELSE s3
    IN [shader |-> s4, poolCounts |-> counts]

RECURSIVE ReflectBindings(_, _, _, _)
ReflectBindings(r, bindings, stage, k) ==
    IF k > Len(bindings) THEN r
    ELSE ReflectBindings(ReflectBinding(r, bindings[k], stage), bindings, stage, k + 1)

\* Lines 195-210: the counts of this call go into descriptorPools, in the
\* order of the descriptor types' values.
RECURSIVE MergePools(_, _)
MergePools(pools, counts) ==
    IF DOMAIN counts = {} THEN pools
    ELSE LET type == CHOOSE t \in DOMAIN counts :
                        \A u \in DOMAIN counts : DescriptorTypeValue(t) <= DescriptorTypeValue(u)
             SameType(p) == p.type = type
             at == FindIf(pools, SameType)
             rest == [t \in DOMAIN counts \ {type} |-> counts[t]]
         IN MergePools(IF at # 0
                       THEN [pools EXCEPT ![at].descriptorCount = @ + counts[type]]
                       ELSE Append(pools, [type |-> type, descriptorCount |-> counts[type]]),
                       rest)

\* Lines 212-245: a push constant block of a known offset and size merges its
\* stage into the range, another one appends a range.
RECURSIVE ReflectPushConstants(_, _, _, _)
ReflectPushConstants(ranges, blocks, stage, k) ==
    IF k > Len(blocks) THEN ranges
    ELSE LET SameRange(r) == r.offset = blocks[k].offset /\ r.size = blocks[k].size
             at == FindIf(ranges, SameRange)
         IN ReflectPushConstants(
                IF at # 0 THEN [ranges EXCEPT ![at].stageFlags = MergeStage(@, stage)]
                ELSE Append(ranges, [offset |-> blocks[k].offset, size |-> blocks[k].size,
                                     stageFlags |-> {stage}]),
                blocks, stage, k + 1)

\* Lines 247-275: the input variables of a vertex blob, built-ins skipped.
RECURSIVE ReflectInputs(_, _, _)
ReflectInputs(sh, inputs, k) ==
    IF k > Len(inputs) THEN sh
    ELSE LET var == inputs[k]
         IN ReflectInputs(
                IF var.built_in # -1 THEN sh
                ELSE [sh EXCEPT
                        !.attributes = Put(@, var.name,
                            [set |-> 0, location |-> var.location, size |-> var.width \div 8,
                             format |-> var.format]),
                        !.attributeDescriptions =
                            Append(@, [location |-> var.location, binding |-> 0,
                                       format |-> var.format, offset |-> 0])],
                inputs, k + 1)

\* Shader::ReflectFromSPIRV, lines 107-278.
ReflectFromSPIRV(sh, blob, stage) ==
    IF ~blob.ok THEN sh
    ELSE LET r == ReflectBindings([shader |-> sh, poolCounts |-> EmptyMap],
                                  blob.bindings, stage, 1)
             s1 == [r.shader EXCEPT !.descriptorPools = MergePools(@, r.poolCounts)]
             s2 == [s1 EXCEPT !.pushConstants =
                                 ReflectPushConstants(@, blob.pushConstants, stage, 1)]
         IN IF stage = "VK_SHADER_STAGE_VERTEX_BIT" THEN ReflectInputs(s2, blob.inputs, 1) ELSE s2

\* Shader::AddShaderModule, lines 86-104, vkCreateShaderModule succeeding.
AddShaderModule(sh, stage) == [sh EXCEPT !.moduleInfos = Append(@, stage)]

\* Lines 447-456 of Shader::Reload: the reflection data that is cleared;
\* attributeDescriptions is not among it.
ClearReflection(sh) ==
    [sh EXCEPT !.uniforms = EmptyMap, !.uniformBlocks = EmptyMap, !.attributes = EmptyMap,
               !.pushConstants = <<>>, !.descriptorBindings = <<>>, !.descriptorPools = <<>>,
               !.descriptorLocations = EmptyMap, !.descriptorSizes = EmptyMap,
               !.descriptorTypes = EmptyMap, !.lastDescriptorBinding = 0]

\* Lines 458-463: the new blob is reflected once for the stage of every
\* module, from module k on.
RECURSIVE ReflectAllStages(_, _, _)
ReflectAllStages(sh, blob, k) ==
    IF k > Len(sh.moduleInfos) THEN sh
    ELSE ReflectAllStages(ReflectFromSPIRV(sh, blob, sh.moduleInfos[k]), blob, k + 1)

\* Shader::Reload, lines 424-469; result is what vkCreateShaderModule
\* returns.  Nothing happens unless a module of the stage exists, and the
\* reflection data is kept when the module cannot be created.
Reload(sh, newBlob, stage, result) ==
    IF (\E k \in DOMAIN sh.moduleInfos : sh.moduleInfos[k] = stage) /\ result = "VK_SUCCESS"
    THEN ReflectAllStages(ClearReflection(sh), newBlob, 1)
    ELSE sh

InitShader ==
    /\ shader = NewShader
    /\ reflected = <<>>
    /\ nReloads = 0

\* One stage of Shader::CreateFromSPIRV or CreateComputeFromSPIRV: the module
\* of the stage is added and its blob reflected.
Reflect(b, stage) ==
    /\ Len(reflected) < MaxReflections
    /\ shader' = ReflectFromSPIRV(AddShaderModule(shader, stage), ShaderBlobs[b], stage)
    /\ reflected' = Append(reflected, [blob |-> b, stage |-> stage])
    /\ UNCHANGED <<nReloads, shaderOthers>>

\* Shader::Reload.  reflected lists the reflections the tables now stem
\* from: the new blob, once for each module.
ShaderReload(b, stage, result) ==
    /\ nReloads < MaxReloads
    /\ shader' = Reload(shader, ShaderBlobs[b], stage, result)
    /\ reflected' =
          IF (\E k \in DOMAIN shader.moduleInfos : shader.moduleInfos[k] = stage)
             /\ result = "VK_SUCCESS"
          THEN [k \in DOMAIN shader.moduleInfos |-> [blob |-> b, stage |-> shader.moduleInfos[k]]]
          ELSE reflected
    /\ nReloads' = nReloads + 1
    /\ UNCHANGED shaderOthers

NextShader ==
    \/ \E b \in DOMAIN ShaderBlobs, stage \in ShaderStages : Reflect(b, stage)
    \/ \E b \in DOMAIN ShaderBlobs, stage \in ShaderStages,
          result \in {"VK_SUCCESS", "VK_ERROR_OUT_OF_HOST_MEMORY"} : ShaderReload(b, stage, result)

\* No shader loaded.
IdleShader == InitShader

-----------------------------------------------------------------------------
(***************************************************************************)
(* Framebuffers: src/Graphics/RenderPass/FrameBuffer.cpp                   *)
(***************************************************************************)

\* Bounds of the framebuffer model.
MaxAttachments == 2    \* attachments of the render stage
MaxImages == 2         \* images of the swapchain

AttachmentTypes == {"Image", "Depth", "Swapchain"}

\* An attachment descriptor: the binding it was constructed with and its type.
Attachments == [binding : 0..MaxAttachments, type : AttachmentTypes]

Nullptr == <<"nullptr">>
Image2d(k) == <<"Image2d", k>>
ViewOfImage(image) == <<"VkImageView", image[1], image[2]>>
DepthView == <<"VkImageView", "depthStencil", 0>>
SwapchainView(i) == <<"VkImageView", "swapchain", i>>
GarbageView == <<"VkImageView", "garbage", 0>>

\* Lines 13-30: one entry per attachment, an image for the Image type.
RECURSIVE CreateImageAttachments(_, _)
CreateImageAttachments(attachments, k) ==
    IF k > Len(attachments) THEN <<>>
    ELSE <<IF attachments[k].type = "Image" THEN Image2d(k) ELSE Nullptr>>
         \o CreateImageAttachments(attachments, k + 1)

\* FrameBuffer.hpp line 20, imageAttachments[index].get(): index is 0-based.
\* Reading past the end of the vector is undefined.
GetAttachment(images, index) ==
    IF index < Len(images) THEN images[index + 1] ELSE <<"undefined">>

\* Line 43 dereferences what GetAttachment returns: undefined for a null
\* pointer and for an index past the end.
Dereferenceable(images, index) == GetAttachment(images, index) \notin {Nullptr, <<"undefined">>}

\* Lines 38-52: the view of one attachment for swapchain image i (0-based).
AttachmentView(images, attachment, i) ==
    CASE attachment.type = "Image" ->
             IF Dereferenceable(images, attachment.binding)
             THEN ViewOfImage(GetAttachment(images, attachment.binding))
             ELSE GarbageView
      [] attachment.type = "Depth" -> DepthView
      [] attachment.type = "Swapchain" -> SwapchainView(i)

\* Lines 32-63: the attachment array of each framebuffer.
Framebuffers(images, attachments, count) ==
    [i \in 1..count |->
        [k \in DOMAIN attachments |-> AttachmentView(images, attachments[k], i - 1)]]

InitFb ==
    /\ stageAttachments \in SeqsUpTo(Attachments, MaxAttachments)
    /\ imageCount \in 1..MaxImages
    /\ imageAttachments = <<>>
    /\ framebuffer = <<>>
    /\ pcFb = "start"

\* Framebuffer::Framebuffer, lines 10-64. Where line 43 is undefined the
\* build either faults or goes on with whatever it read; vkCreateFramebuffer
\* may fail, which CheckVkResult turns into an exception.
FramebufferCtor(undefined, result) ==
    /\ pcFb = "start"
    /\ LET images == CreateImageAttachments(stageAttachments, 1)
           faults == /\ undefined = "fault"
                     /\ \E k \in DOMAIN stageAttachments :
                           /\ stageAttachments[k].type = "Image"
                           /\ ~Dereferenceable(images, stageAttachments[k].binding)
       IN /\ imageAttachments' = images
          /\ IF faults
             THEN /\ framebuffer' = <<>>
                  /\ pcFb' = "crashed"
             ELSE IF result # "VK_SUCCESS"
             THEN /\ framebuffer' = <<>>
                  /\ pcFb' = "error"
             ELSE /\ framebuffer' = Framebuffers(images, stageAttachments, imageCount)
                  /\ pcFb' = "built"
    /\ UNCHANGED <<stageAttachments, imageCount, fbOthers>>

NextFb ==
    \E undefined \in {"fault", "garbage"}, result \in {"VK_SUCCESS", "VK_ERROR_OUT_OF_HOST_MEMORY"} :
        FramebufferCtor(undefined, result)

\* No render stage built.
IdleFb ==
    /\ stageAttachments = <<>>
    /\ imageCount = 1
    /\ imageAttachments = <<>>
    /\ framebuffer = <<>>
    /\ pcFb = "idle"

-----------------------------------------------------------------------------
(***************************************************************************)
(* Uniform and storage handlers: src/Graphics/Buffers/StorageHandler.hpp,  *)
(* StorageHandler.cpp, UniformHandler.hpp, UniformHandler.cpp              *)
(***************************************************************************)

\* Bound of the handler model.
MaxBytes == 2      \* bytes of a uniform block or of a pushed span

\* sizeof(T) of the object overload of Push: T is a type of two bytes.
ObjectSize == 2

Bytes == 0..1
ByteSeqs(n) == [1..n -> Bytes]
UniformBlocks == [size : 1..MaxBytes]

\* A Buffer that was not created, and one created with its memory holding bytes.
NoHandlerBuffer == [allocated |-> FALSE, bytes |-> <<>>]
HandlerBuffer(bytes) == [allocated |-> TRUE, bytes |-> bytes]

\* The constructors: StorageHandler.cpp lines 5-13, UniformHandler.cpp lines
\* 6-14. The memory of a new buffer holds content, which nothing initialised.
NewHandler(kind, multipipeline, uniformBlock, content) ==
    [kind |-> kind, multipipeline_ |-> multipipeline, uniformBlock_ |-> uniformBlock,
     size_ |-> IF uniformBlock = Nullopt THEN 0 ELSE ValueOf(uniformBlock).size,
     bound_ |-> FALSE,
     buffer |-> IF uniformBlock = Nullopt THEN NoHandlerBuffer ELSE HandlerBuffer(content),
     handlerStatus_ |->
         IF kind = "Uniform" THEN "Normal"
         ELSE IF uniformBlock = Nullopt THEN "Reset" ELSE "Changed"]

PushResult(h, compares, copies, fault) ==
    [handler |-> h, compares |-> compares, copies |-> copies, fault |-> fault]

\* StorageHandler.hpp lines 39-47 and 62-72, UniformHandler.hpp lines 33-43:
\* compare the bytes at dest with the source unless the status is Changed
\* already, copy when they differ. A range that ends past the buffer is
\* undefined: the build faults, or it goes on having found the bytes equal
\* or different.
CompareAndCopy_CopiesEqualBytes(h, offset, src, undefined) ==
    LET dest == h.buffer.bytes
        differ == /\ offset + Len(src) <= Len(dest)
                  /\ SubSeq(dest, offset + 1, offset + Len(src)) # src
    IN PushResult([h EXCEPT !.handlerStatus_ = IF differ THEN "Changed" ELSE @,
                            !.buffer.bytes = [k \in DOMAIN dest |->
                                IF k > offset /\ k <= offset + Len(src)
                                THEN src[k - offset] ELSE dest[k]]],
                  1, 1, FALSE)

CompareAndCopy_StaysNormal(h, offset, src, undefined) ==
    LET dest == h.buffer.bytes
        differ == /\ offset + Len(src) <= Len(dest)
                  /\ SubSeq(dest, offset + 1, offset + Len(src)) # src
    IN IF differ
       THEN PushResult([h EXCEPT !.buffer.bytes = [k \in DOMAIN dest |->
                                     IF k > offset /\ k <= offset + Len(src)
                                     THEN src[k - offset] ELSE dest[k]]],
                       1, 1, FALSE)
       ELSE PushResult(h, 1, 0, FALSE)

CompareAndCopy(h, offset, src, undefined) ==
    LET dest == h.buffer.bytes
        inRange == offset + Len(src) <= Len(dest)
        changed == h.handlerStatus_ = "Changed"
        differ == IF inRange THEN SubSeq(dest, offset + 1, offset + Len(src)) # src
                  ELSE undefined = "differ"
    IN IF ~inRange /\ undefined = "fault" THEN PushResult(h, 0, 0, TRUE)
       ELSE IF changed \/ differ
       THEN PushResult([h EXCEPT !.handlerStatus_ = "Changed",
                                 !.buffer.bytes = [k \in DOMAIN dest |->
                                     IF k > offset /\ k <= offset + Len(src)
                                     THEN src[k - offset] ELSE dest[k]]],
                       IF changed THEN 0 ELSE 1, 1, FALSE)
       ELSE PushResult(h, 1, 0, FALSE)

\* StorageHandler::Push(std::span<const std::byte>), StorageHandler.hpp lines 21-48.
PushSpan(h, data, undefined) ==
    IF h.size_ # Len(data)
    THEN PushResult([h EXCEPT !.size_ = Len(data), !.handlerStatus_ = "Reset"], 0, 0, FALSE)
    ELSE IF h.uniformBlock_ = Nullopt \/ ~h.buffer.allocated
    THEN PushResult(h, 0, 0, FALSE)
    ELSE CompareAndCopy([h EXCEPT !.bound_ = TRUE], 0, data, undefined)

\* UniformHandler::Push(const T &object, offset, size), UniformHandler.hpp
\* lines 21-44, and StorageHandler::Push(const T &object, offset, size),
\* StorageHandler.hpp lines 50-73, which is the same code: neither looks at
\* size_.  object is a value of ObjectSize bytes.
PushObject(h, object, offset, size, undefined) ==
    IF h.uniformBlock_ = Nullopt \/ ~h.buffer.allocated
    THEN PushResult(h, 0, 0, FALSE)
    ELSE CompareAndCopy([h EXCEPT !.bound_ = TRUE], offset,
                        SubSeq(object, 1, Min(size, Len(object))), undefined)

\* StorageHandler::Update, StorageHandler.cpp lines 15-47, and
\* UniformHandler::Update, UniformHandler.cpp lines 16-48, which is the same
\* code. uniformBlock->GetSize() on an empty optional is undefined: the build
\* faults (undefinedSize = -1) or reads undefinedSize. vmaCreateBuffer refuses
\* a buffer of size 0 and CheckVkResult throws. The bytes of the new buffer
\* are content.
Update(h, uniformBlock, undefinedSize, content) ==
    IF \/ h.handlerStatus_ = "Reset"
       \/ h.multipipeline_ /\ h.uniformBlock_ = Nullopt
       \/ ~h.multipipeline_ /\ h.uniformBlock_ # uniformBlock
    THEN LET resize == \/ h.size_ = 0 /\ h.uniformBlock_ = Nullopt
                       \/ /\ h.uniformBlock_ # Nullopt
                          /\ h.uniformBlock_ # uniformBlock
                          /\ ValueOf(h.uniformBlock_).size = h.size_
             size == IF ~resize THEN h.size_
                     ELSE IF uniformBlock # Nullopt THEN ValueOf(uniformBlock).size
                     ELSE undefinedSize
             h1 == [h EXCEPT !.size_ = size, !.uniformBlock_ = uniformBlock, !.bound_ = FALSE]
         IN IF size = -1 THEN [handler |-> h, outcome |-> "crashed", allocated |-> -1]
            ELSE IF size = 0 THEN [handler |-> h1, outcome |-> "threw", allocated |-> -1]
            ELSE [handler |-> [h1 EXCEPT !.buffer = HandlerBuffer(content),
                                         !.handlerStatus_ = "Changed"],
                  outcome |-> "false", allocated |-> size]
    ELSE [handler |-> IF h.handlerStatus_ # "Normal"
                      THEN [h EXCEPT !.bound_ = FALSE, !.handlerStatus_ = "Normal"]
                      ELSE h,
          outcome |-> "true", allocated |-> -1]

\* The record of the member function that ran last: its arguments, the
\* status and tracked size it found, whether the buffer held other bytes than
\* data at offset, what it did, and two facts
\* about the call before it: repeated says that call was the same Push with
\* the same bytes and offset (firstStatus is the status that one found),
\* mismatched is the byte count of a preceding Push that differed from the
\* tracked size, -1 when there was none.  For an Update, block is its argument
\* and falseBefore says that an Update of the unbroken run of Update calls
\* with this argument that ends here returned false before this one.
NoHandlerOp ==
    [op |-> "new", data |-> <<>>, offset |-> 0, statusBefore |-> "", sizeBefore |-> 0,
     differed |-> FALSE, usable |-> FALSE, compares |-> 0, copies |-> 0, allocated |-> -1,
     returned |-> "", repeated |-> FALSE, firstStatus |-> "", mismatched |-> -1,
     block |-> Nullopt, falseBefore |-> FALSE]

InitHandler ==
    /\ \E kind \in {"Uniform", "Storage"}, multipipeline \in BOOLEAN,
          uniformBlock \in {Nullopt} \cup {Some(b) : b \in UniformBlocks} :
          \E content \in (IF uniformBlock = Nullopt THEN {<<>>}
                          ELSE ByteSeqs(ValueOf(uniformBlock).size)) :
              handler = NewHandler(kind, multipipeline, uniformBlock, content)
    /\ pcHandler = "ready"
    /\ lastHandlerOp = NoHandlerOp

HandlerOp(op, data, offset) ==
    [NoHandlerOp EXCEPT !.op = op, !.data = data, !.offset = offset,
                        !.statusBefore = handler.handlerStatus_,
                        !.sizeBefore = handler.size_,
                        !.differed =
                            /\ offset + Len(data) <= Len(handler.buffer.bytes)
                            /\ SubSeq(handler.buffer.bytes, offset + 1, offset + Len(data)) # data,
                        !.usable = handler.uniformBlock_ # Nullopt /\ handler.buffer.allocated]

AfterPush(r, op, data, offset) ==
    LET repeated == /\ lastHandlerOp.op = op
                    /\ lastHandlerOp.data = data
                    /\ lastHandlerOp.offset = offset
    IN /\ handler' = r.handler
       /\ pcHandler' = IF r.fault THEN "crashed" ELSE "ready"
       /\ lastHandlerOp' = [HandlerOp(op, data, offset) EXCEPT
                               !.compares = r.compares, !.copies = r.copies,
                               !.repeated = repeated,
                               !.firstStatus = IF repeated THEN lastHandlerOp.statusBefore ELSE ""]
       /\ UNCHANGED handlerOthers

HandlerPushSpan(data, undefined) ==
    /\ pcHandler = "ready"
    /\ handler.kind = "Storage"
    /\ AfterPush(PushSpan(handler, data, undefined), "PushSpan", data, 0)

\* Push(object, offset, size) of either handler.
HandlerPushObject(object, offset, size, undefined) ==
    /\ pcHandler = "ready"
    /\ AfterPush(PushObject(handler, object, offset, size, undefined), "PushObject",
                 SubSeq(object, 1, Min(size, Len(object))), offset)

HandlerUpdate(uniformBlock, undefinedSize, content) ==
    /\ pcHandler = "ready"
    /\ LET r == Update(handler, uniformBlock, undefinedSize, content)
       IN /\ handler' = r.handler
          /\ pcHandler' = IF r.outcome \in {"true", "false"} THEN "ready" ELSE r.outcome
          /\ lastHandlerOp' = [HandlerOp("Update", <<>>, 0) EXCEPT
                                  !.allocated = r.allocated, !.returned = r.outcome,
                                  !.block = uniformBlock,
                                  !.falseBefore =
                                      /\ lastHandlerOp.op = "Update"
                                      /\ lastHandlerOp.block = uniformBlock
                                      /\ \/ lastHandlerOp.returned = "false"
                                         \/ lastHandlerOp.falseBefore,
                                  !.mismatched =
                                      IF /\ lastHandlerOp.op \in {"PushSpan", "PushObject"}
                                         /\ Len(lastHandlerOp.data) # lastHandlerOp.sizeBefore
                                      THEN Len(lastHandlerOp.data) ELSE -1]
    /\ UNCHANGED handlerOthers

AllByteSeqs == UNION {ByteSeqs(n) : n \in 0..MaxBytes}

\* What an access of n bytes at offset can do: it is defined inside the
\* buffer, and also where the handler returns before touching it.
Undefined(offset, n) ==
    IF offset + n <= Len(handler.buffer.bytes) \/ handler.uniformBlock_ = Nullopt
    THEN {"defined"}
    ELSE {"fault", "equal", "differ"}

\* What uniformBlock->GetSize() can read: the size of the block, or anything
\* when the optional is empty.
UndefinedSizes(uniformBlock) ==
    IF uniformBlock = Nullopt THEN (-1)..MaxBytes ELSE {ValueOf(uniformBlock).size}

\* The size of the buffer Update would allocate, 0 when it allocates none.
SizeAllocated(uniformBlock, undefinedSize) ==
    LET r == Update(handler, uniformBlock, undefinedSize, <<>>)
    IN IF r.allocated = -1 THEN 0 ELSE r.allocated

NextHandler ==
    \/ \E data \in AllByteSeqs :
          \E undefined \in Undefined(0, Len(data)) : HandlerPushSpan(data, undefined)
    \/ \E object \in ByteSeqs(ObjectSize), offset \in 0..(ObjectSize - 1), size \in 1..ObjectSize :
          \E undefined \in Undefined(offset, Min(size, Len(object))) :
              HandlerPushObject(object, offset, size, undefined)
    \/ \E uniformBlock \in {Nullopt} \cup {Some(b) : b \in UniformBlocks} :
          \E undefinedSize \in UndefinedSizes(uniformBlock) :
              \E content \in ByteSeqs(SizeAllocated(uniformBlock, undefinedSize)) :
                  HandlerUpdate(uniformBlock, undefinedSize, content)

\* No handler in use.
IdleHandler ==
    /\ handler = NewHandler("Uniform", FALSE, Nullopt, <<>>)
    /\ pcHandler = "idle"
    /\ lastHandlerOp = NoHandlerOp

-----------------------------------------------------------------------------
(***************************************************************************)
(* Engine module scheduler: src/Engine/Engine.cpp, Engine.hpp, Module.hpp  *)
(***************************************************************************)

\* Bounds of the engine model.
NumModules == 2         \* registered module types; type id NumModules + 1 is not registered
MaxDependencies == 2    \* dependencies declared in the whole registry

MaxModules == 128  \* width of the ModuleFilter bitset

TypeIds == 1..NumModules
RequirableIds == 1..(NumModules + 1)

Stage == {"Never", "Always", "Pre", "Normal", "Post", "Render"}
RegisteredStages == {"Normal", "Render"}

\* Module::CreateInfo without the factory; dependencies is the vector that
\* Requires<Args...>::Get() fills in the order of its arguments.
CreateInfo == [stage : RegisteredStages, dependencies : SeqsUpTo(RequirableIds, MaxDependencies)]

\* ModuleFilter::Check(typeId)
Check(filter, typeId) == typeId < MaxModules /\ typeId \in filter

NoStages == [stage \in Stage |-> <<>>]

NewEngine == [modules |-> {}, moduleStages |-> NoStages, log |-> <<>>, overflow |-> FALSE]

\* The tail of Engine::CreateModule: createFunc() and the two insertions.
ModuleCreated(e, id) ==
    [e EXCEPT !.modules = @ \cup {id},
              !.moduleStages[registry[id].stage] = Append(@, id),
              !.log = Append(@, <<"construct", id>>)]

LeastOf(ids) == CHOOSE id \in ids : \A other \in ids : id <= other

RECURSIVE CreateModule(_, _, _)
RECURSIVE CreateDependencies(_, _, _)

\* The loop over it->second.dependencies of Engine::CreateModule, in the order
\* of the vector.
CreateDependencies(e, requireIds, stack) ==
    IF requireIds = <<>> \/ e.overflow THEN e
    ELSE LET requireId == Head(requireIds)
             next == IF requireId \in DOMAIN registry
                     THEN CreateModule(e, requireId, stack)
                     ELSE e     \* "Module dependency not found" is logged
         IN  CreateDependencies(next, Tail(requireIds), stack)

\* Engine::CreateModule(it, filter); stack holds the type ids of the calls that
\* have not returned.  A call for an id that is on the stack finds modules as
\* its caller found it and recurses again without end.
CreateModule(e, id, stack) ==
    IF e.overflow \/ id \in e.modules THEN e
    ELSE IF ~Check(moduleFilter, id) THEN e
    ELSE IF id \in stack THEN [e EXCEPT !.overflow = TRUE]
    ELSE LET created == CreateDependencies(e, registry[id].dependencies, stack \cup {id})
         IN  IF created.overflow THEN created ELSE ModuleCreated(created, id)

RECURSIVE CreateModules(_, _)
\* The loop over Module::Registry() of Engine::Engine, in iteration order.
CreateModules(e, order) ==
    IF order = <<>> THEN e
    ELSE CreateModules(CreateModule(e, Head(order), {}), Tail(order))

RECURSIVE InitializeModules(_, _)
\* The loop over modules of Engine::Engine: std::map order, ascending type id.
InitializeModules(log, ids) ==
    IF ids = {} THEN log
    ELSE InitializeModules(Append(log, <<"initialize", LeastOf(ids)>>), ids \ {LeastOf(ids)})

\* The orders in which an unordered_map of the registered ids can be walked.
IterationOrders ==
    {order \in [TypeIds -> TypeIds] : \A a, b \in TypeIds : order[a] = order[b] => a = b}

\* The entries of the dependency vectors of a registry: <<id, position>>.
Declared(reg) == {entry \in TypeIds \X (1..MaxDependencies) : entry[2] <= Len(reg[entry[1]].dependencies)}

InitEngine ==
    /\ registry \in [TypeIds -> CreateInfo]
    /\ Cardinality(Declared(registry)) <= MaxDependencies
    /\ moduleFilter \in SUBSET TypeIds
    /\ modules = {}
    /\ moduleStages = NoStages
    /\ engineLog = <<>>
    /\ tickLog = <<>>
    /\ pcEngine = "start"

\* Engine::Engine(argv0, moduleFilter)
EngineCtor(order) ==
    /\ pcEngine = "start"
    /\ LET created == CreateModules(NewEngine, order)
       IN  /\ modules' = created.modules
           /\ moduleStages' = created.moduleStages
           /\ IF created.overflow
              THEN /\ engineLog' = created.log
                   /\ pcEngine' = "overflowed"
              ELSE /\ engineLog' = InitializeModules(created.log, created.modules)
                   /\ pcEngine' = "running"
    /\ UNCHANGED <<registry, moduleFilter, tickLog>>

RECURSIVE UpdateModules(_, _)
\* The loop of Engine::UpdateStage over the stage's list.
UpdateModules(stage, ids) ==
    IF ids = <<>> THEN <<>>
    ELSE (IF Head(ids) \in modules THEN << <<"update", stage, Head(ids)>> >> ELSE <<>>)
         \o UpdateModules(stage, Tail(ids))

Reversed(seq) == [i \in 1..Len(seq) |-> seq[Len(seq) + 1 - i]]

UpdateStage_NewestFirst(stage) ==
    << <<"pass", stage, 0>> >> \o UpdateModules(stage, Reversed(moduleStages[stage]))

\* Engine::UpdateStage(stage)
UpdateStage(stage) ==
    << <<"pass", stage, 0>> >> \o UpdateModules(stage, moduleStages[stage])

\* One iteration of the loop of Engine::Run; the two timers have elapsed or not.
Tick(updateElapsed, renderElapsed) ==
    /\ pcEngine = "running"
    /\ tickLog' = UpdateStage("Always")
                  \o (IF updateElapsed
                      THEN UpdateStage("Pre") \o UpdateStage("Normal") \o UpdateStage("Post")
                      ELSE <<>>)
                  \o (IF renderElapsed THEN UpdateStage("Render") ELSE <<>>)
    /\ UNCHANGED <<registry, moduleFilter, modules, moduleStages, engineLog, pcEngine>>

\* Engine::RequestClose(), after which the loop of Engine::Run ends.
RequestClose ==
    /\ pcEngine = "running"
    /\ pcEngine' = "stopped"
    /\ UNCHANGED <<registry, moduleFilter, modules, moduleStages, engineLog, tickLog>>

GreatestOf(ids) == CHOOSE id \in ids : \A other \in ids : other <= id

RECURSIVE ShutdownModules(_, _)
\* The first loop of Engine::~Engine: modules.rbegin() to modules.rend().
ShutdownModules(log, ids) ==
    IF ids = {} THEN log
    ELSE ShutdownModules(Append(log, <<"shutdown", GreatestOf(ids)>>), ids \ {GreatestOf(ids)})

RECURSIVE DestroyModule(_, _)
RECURSIVE DestroyDependents(_, _)

\* The loop over Module::Registry() of Engine::DestroyModule.
DestroyDependents(mods, registrarIds) ==
    IF registrarIds = {} THEN mods
    ELSE DestroyDependents(DestroyModule(mods, LeastOf(registrarIds)),
                           registrarIds \ {LeastOf(registrarIds)})

\* Engine::DestroyModule(id): the ids left in modules.
DestroyModule(mods, id) ==
    IF id \notin mods THEN mods
    ELSE DestroyDependents(mods, {r \in TypeIds : \E k \in DOMAIN registry[r].dependencies :
                                                       registry[r].dependencies[k] = id}) \ {id}

\* The keys of a std::map before the position of an iterator; the empty set
\* stands for end().
KeysBefore(mods, current) == {id \in mods : \A c \in current : id < c}

RECURSIVE DestroyModules(_, _)
\* The second loop of Engine::~Engine: a reverse iterator walks modules while
\* DestroyModule erases from it.  current is the iterator the reverse iterator
\* holds.  Decrementing it once its element was erased, at begin(), or at end()
\* of an empty map is undefined.
DestroyModules(mods, current) ==
    IF KeysBefore(mods, current) = {} THEN [modules |-> mods, undefined |-> FALSE]
    ELSE LET left == DestroyModule(mods, GreatestOf(KeysBefore(mods, current)))
         IN  IF ~(current \subseteq left) \/ KeysBefore(left, current) = {}
             THEN [modules |-> left, undefined |-> TRUE]
             ELSE DestroyModules(left, {GreatestOf(KeysBefore(left, current))})

RemainingStages(mods) ==
    [stage \in Stage |-> SelectSeq(moduleStages[stage], LAMBDA id : id \in mods)]

\* Engine::~Engine()
EngineDtor(crash) ==
    /\ pcEngine \in {"running", "stopped"}
    /\ engineLog' = ShutdownModules(engineLog, modules)
    /\ LET destroyed == DestroyModules(modules, {})
       IN  IF destroyed.undefined /\ crash
           THEN /\ modules' = destroyed.modules
                /\ moduleStages' = RemainingStages(destroyed.modules)
                /\ pcEngine' = "crashed"
           ELSE /\ modules' = {}
                /\ moduleStages' = NoStages
                /\ pcEngine' = "destroyed"
    /\ tickLog' = <<>>
    /\ UNCHANGED <<registry, moduleFilter>>

NextEngine ==
    /\ \/ \E order \in IterationOrders : EngineCtor(order)
       \/ \E updateElapsed, renderElapsed \in BOOLEAN : Tick(updateElapsed, renderElapsed)
       \/ RequestClose
       \/ \E crash \in BOOLEAN : EngineDtor(crash)
    /\ UNCHANGED engineOthers

IdleEngine ==
    /\ registry = [id \in TypeIds |-> [stage |-> "Normal", dependencies |-> <<>>]]
    /\ moduleFilter = {}
    /\ modules = {}
    /\ moduleStages = NoStages
    /\ engineLog = <<>>
    /\ tickLog = <<>>
    /\ pcEngine = "start"

-----------------------------------------------------------------------------
(***************************************************************************)
(* Shader bundle: src/Graphics/Shaders/ShaderBundle.hpp                    *)
(***************************************************************************)

\* Bound of the shader bundle model.
MaxShaders == 2    \* entries of a bundle

BUNDLE_MAGIC == 1397245010   \* 0x53484452
BUNDLE_VERSION == 1
NameSize == 256              \* sizeof(ShaderBundleEntry::name)
EntryPointSize == 64         \* sizeof(ShaderBundleEntry::entryPoint)
Half == 65536                \* a uint32_t is kept as <<high 16 bits, low 16 bits>>

\* VkShaderStageFlagBits
StageFlagBits ==
    [VK_SHADER_STAGE_VERTEX_BIT |-> 1, VK_SHADER_STAGE_FRAGMENT_BIT |-> 16,
     VK_SHADER_STAGE_RAYGEN_BIT_KHR |-> 256, VK_SHADER_STAGE_MISS_BIT_KHR |-> 2048]

RECURSIVE BitXor(_, _)
\* a ^ b
BitXor(a, b) ==
    IF a = 0 /\ b = 0 THEN 0
    ELSE (((a % 2) + (b % 2)) % 2) + 2 * BitXor(a \div 2, b \div 2)

\* static_cast<uint32_t>(c) of a char holding the byte c: char is signed, so a
\* byte of 128 or more is a negative value and converts with its sign extended.
CharToUint32(c) == IF c >= 128 THEN <<Half - 1, (Half - 256) + c>> ELSE <<0, c>>

\* One round of the loop of hashString: hash ^= static_cast<uint32_t>(c);
\* hash *= 16777619u, where 16777619 = 256 * 65536 + 403.
HashRound(hash, c) ==
    LET hi == BitXor(hash[1], CharToUint32(c)[1])
        lo == BitXor(hash[2], CharToUint32(c)[2])
    IN  <<((hi * 403) + (lo * 256) + ((lo * 403) \div Half)) % Half, (lo * 403) % Half>>

RECURSIVE HashRounds(_, _, _, _)
\* The rounds of the loop of hashString for the characters first..last of str,
\* in order; the range is halved to keep the evaluation shallow.
HashRounds(hash, str, first, last) ==
    IF first > last THEN hash
    ELSE IF first = last THEN HashRound(hash, str[first])
    ELSE LET middle == (first + last) \div 2
             half == HashRounds(hash, str, first, middle)
         IN  IF half[1] < 0 THEN half ELSE HashRounds(half, str, middle + 1, last)

\* ShaderBundle::hashString(str): FNV-1a from 2166136261 = 33052 * 65536 + 40389.
hashString(str) == HashRounds(<<33052, 40389>>, str, 1, Len(str))

\* ShaderBundle::makeKey(nameHash, stage): nameHash ^ (stage << 24) in 32 bits.
makeKey(nameHash, stage) ==
    <<BitXor(nameHash[1], (stage * 256) % Half), nameHash[2]>>

makeKey_StageInLowBits(nameHash, stage) ==
    <<nameHash[1], BitXor(nameHash[2], stage % Half)>>

\* Strings are sequences of character codes.
Repeated(c, n) == [i \in 1..n |-> c]
Str_vs_main == <<118, 115, 95, 109, 97, 105, 110>>
Str_fs_accent == <<102, 115, 95, 195, 169>>    \* "fs_" and the two bytes of U+00E9
Str_rt == <<114, 116>>
Str_main == <<109, 97, 105, 110>>

\* The shaders handed to addShader: name, stage, SPIR-V words, entry point.
ShaderSources ==
    {[name |-> Str_vs_main, stage |-> StageFlagBits.VK_SHADER_STAGE_VERTEX_BIT,
      spirv |-> <<1, 2>>, entryPoint |-> Str_main],
     [name |-> Str_fs_accent, stage |-> StageFlagBits.VK_SHADER_STAGE_FRAGMENT_BIT,
      spirv |-> <<3>>, entryPoint |-> Str_main],
     [name |-> Str_rt, stage |-> StageFlagBits.VK_SHADER_STAGE_RAYGEN_BIT_KHR,
      spirv |-> <<4>>, entryPoint |-> Str_main],
     [name |-> Str_rt, stage |-> StageFlagBits.VK_SHADER_STAGE_MISS_BIT_KHR,
      spirv |-> <<5>>, entryPoint |-> Str_main],
     [name |-> Repeated(97, NameSize), stage |-> StageFlagBits.VK_SHADER_STAGE_VERTEX_BIT,
      spirv |-> <<6>>, entryPoint |-> Repeated(109, EntryPointSize)]}

\* hashString of the names in use, computed once.
NameHashes == [name \in {src.name : src \in ShaderSources} |-> hashString(name)]

\* The bytes of SPIR-V words below 65536, and back.
RECURSIVE WordsToBytes(_)
WordsToBytes(spirv) ==
    IF spirv = <<>> THEN <<>>
    ELSE <<Head(spirv) % 256, Head(spirv) \div 256, 0, 0>> \o WordsToBytes(Tail(spirv))

RECURSIVE BytesToWords(_)
BytesToWords(bytes) ==
    IF Len(bytes) < 4 THEN <<>>
    ELSE <<bytes[1] + (256 * bytes[2])>> \o BytesToWords(SubSeq(bytes, 5, Len(bytes)))

\* ShaderBundle() = default
NewBundle == [data_ |-> <<>>, entries_ |-> <<>>, hashToIndex_ |-> EmptyMap]

\* ShaderBundle::addShader(name, stage, spirv, entryPoint); indices count from 0.
addShader(b, name, stage, spirv, entryPoint) ==
    LET entry == [name |-> name, entryPoint |-> entryPoint, stage |-> stage,
                  offset |-> Len(b.data_), size |-> Len(spirv) * 4,
                  nameHash |-> NameHashes[name]]
    IN  [data_ |-> b.data_ \o WordsToBytes(spirv),
         entries_ |-> Append(b.entries_, entry),
         hashToIndex_ |-> Put(b.hashToIndex_, makeKey(entry.nameHash, stage), Len(b.entries_))]

\* ShaderBundle::getShaderByHash(nameHash, stage)
getShaderByHash(b, nameHash, stage) ==
    LET key == makeKey(nameHash, stage)
    IN  IF key \notin DOMAIN b.hashToIndex_ THEN Nullopt
        ELSE LET entry == b.entries_[b.hashToIndex_[key] + 1]
             IN  Some(BytesToWords(SubSeq(b.data_, entry.offset + 1, entry.offset + entry.size)))

\* ShaderBundle::hasShader(name, stage)
hasShader(b, name, stage) == makeKey(NameHashes[name], stage) \in DOMAIN b.hashToIndex_

\* strncpy(dest, src, size - 1) into a zeroed array, read back as a C string.
Strncpy(src, size) == SubSeq(src, 1, Min(Len(src), size - 1))

DiskEntry_OffsetZero(entry) ==
    [nameHash |-> entry.nameHash, stage |-> entry.stage, offset |-> 0,
     size |-> entry.size, name |-> Strncpy(entry.name, NameSize),
     entryPoint |-> Strncpy(entry.entryPoint, EntryPointSize)]

\* The ShaderBundleEntry that save writes for an entry.
DiskEntry(entry) ==
    [nameHash |-> entry.nameHash, stage |-> entry.stage, offset |-> entry.offset,
     size |-> entry.size, name |-> Strncpy(entry.name, NameSize),
     entryPoint |-> Strncpy(entry.entryPoint, EntryPointSize)]

NoFile == [exists |-> FALSE, magic |-> 0, version |-> 0, entryCount |-> 0, dataSize |-> 0,
           entries |-> <<>>, data |-> <<>>, saved |-> NewBundle]

\* ShaderBundle::save(filepath): the file written; saved remembers the bundle.
save(b) ==
    [exists |-> TRUE, magic |-> BUNDLE_MAGIC, version |-> BUNDLE_VERSION,
     entryCount |-> Len(b.entries_), dataSize |-> Len(b.data_),
     entries |-> [i \in 1..Len(b.entries_) |-> DiskEntry(b.entries_[i])],
     data |-> b.data_, saved |-> b]

RECURSIVE ReadEntries(_, _, _)
\* The loop of load over the entry records, lines 186-202.
ReadEntries(b, diskEntries, i) ==
    IF i > Len(diskEntries) THEN b
    ELSE LET diskEntry == diskEntries[i]
             entry == [name |-> diskEntry.name, entryPoint |-> diskEntry.entryPoint,
                       stage |-> diskEntry.stage, offset |-> diskEntry.offset,
                       size |-> diskEntry.size, nameHash |-> diskEntry.nameHash]
         IN  ReadEntries([b EXCEPT !.hashToIndex_ =
                                       Put(@, makeKey(entry.nameHash, entry.stage), Len(b.entries_)),
                                   !.entries_ = Append(@, entry)],
                         diskEntries, i + 1)

load_ClearsFirst(b, file) ==
    IF ~file.exists THEN [bundle |-> b, returned |-> FALSE]
    ELSE IF file.magic # BUNDLE_MAGIC \/ file.version # BUNDLE_VERSION
    THEN [bundle |-> NewBundle, returned |-> FALSE]
    ELSE [bundle |-> [ReadEntries(NewBundle, SubSeq(file.entries, 1, file.entryCount), 1)
                         EXCEPT !.data_ = SubSeq(file.data, 1, file.dataSize)],
          returned |-> TRUE]

\* ShaderBundle::load(filepath)
load(b, file) ==
    IF ~file.exists THEN [bundle |-> b, returned |-> FALSE]
    ELSE IF file.magic # BUNDLE_MAGIC \/ file.version # BUNDLE_VERSION
    THEN [bundle |-> b, returned |-> FALSE]
    ELSE [bundle |-> [ReadEntries(NewBundle, SubSeq(file.entries, 1, file.entryCount), 1)
                         EXCEPT !.data_ = SubSeq(file.data, 1, file.dataSize)],
          returned |-> TRUE]

InitBundle ==
    /\ bundle = NewBundle
    /\ bundleFile = NoFile
    /\ lastBundleOp = [op |-> "new", returned |-> TRUE]

BundleAddShader(src) ==
    /\ Len(bundle.entries_) < MaxShaders
    /\ bundle' = addShader(bundle, src.name, src.stage, src.spirv, src.entryPoint)
    /\ lastBundleOp' = [op |-> "addShader", returned |-> TRUE]
    /\ UNCHANGED bundleFile

\* save(filepath); opened says whether the file could be opened for writing.
BundleSave(opened) ==
    /\ bundleFile' = IF opened THEN save(bundle) ELSE bundleFile
    /\ lastBundleOp' = [op |-> "save", returned |-> opened]
    /\ UNCHANGED bundle

BundleLoad ==
    /\ LET r == load(bundle, bundleFile)
       IN  /\ bundle' = r.bundle
           /\ lastBundleOp' = [op |-> "load", returned |-> r.returned]
    /\ UNCHANGED bundleFile

\* ShaderBundle::clear()
BundleClear ==
    /\ bundle # NewBundle
    /\ bundle' = NewBundle
    /\ lastBundleOp' = [op |-> "clear", returned |-> TRUE]
    /\ UNCHANGED bundleFile

\* Another program overwrites the magic number and version of the file.
OverwriteHeader(magic, version) ==
    /\ bundleFile.exists
    /\ bundleFile.magic = BUNDLE_MAGIC /\ bundleFile.version = BUNDLE_VERSION
    /\ bundleFile' = [bundleFile EXCEPT !.magic = magic, !.version = version]
    /\ UNCHANGED <<bundle, lastBundleOp>>

ForeignHeaders ==
    {<<0, BUNDLE_VERSION>>, <<BUNDLE_MAGIC, BUNDLE_VERSION + 1>>}

NextBundle ==
    /\ \/ \E src \in ShaderSources : BundleAddShader(src)
       \/ \E opened \in BOOLEAN : BundleSave(opened)
       \/ BundleLoad
       \/ BundleClear
       \/ \E header \in ForeignHeaders : OverwriteHeader(header[1], header[2])
    /\ UNCHANGED bundleOthers

IdleBundle == InitBundle

-----------------------------------------------------------------------------
(***************************************************************************)
(* Type registry: src/UtilityClasses/TypeInformation.hpp and its copy      *)
(* src/SF_Engine/UtilityClasses/TypeInformation.hpp                        *)
(***************************************************************************)

\* Bounds of the type registry model.
NumThreads == 2    \* threads calling GetTypeId
NumTypes == 2      \* types K of one hierarchy T

Threads == 1..NumThreads
Types == 1..NumTypes

NoCall == [pc |-> "idle", type |-> 0, found |-> Nullopt]

InitType ==
    /\ s_typeMap = EmptyMap
    /\ s_nextTypeId = 0
    /\ s_mutex = [shared |-> {}, unique |-> {}]
    /\ typeCalls = [t \in Threads |-> NoCall]
    /\ handedOut = {}
    /\ cleared = FALSE

\* s_typeMap.find(typeIndex): the id, when there is one.
Find(typeIndex) ==
    IF typeIndex \in DOMAIN s_typeMap THEN Some(s_typeMap[typeIndex]) ELSE Nullopt

\* GetTypeId<K>() is entered and std::shared_lock lock(s_mutex) is taken.
LockShared(t, K) ==
    /\ typeCalls[t].pc = "idle"
    /\ s_mutex.unique = {}
    /\ s_mutex' = [s_mutex EXCEPT !.shared = @ \cup {t}]
    /\ typeCalls' = [typeCalls EXCEPT ![t] = [pc |-> "shared", type |-> K, found |-> Nullopt]]
    /\ UNCHANGED <<s_typeMap, s_nextTypeId, handedOut, cleared>>

\* Lines 38-40: the first check; the shared lock is released at the end of
\* its block, and the call returns when the type was found.
FirstCheck(t) ==
    /\ typeCalls[t].pc = "shared"
    /\ LET found == Find(typeCalls[t].type)
       IN  /\ s_mutex' = [s_mutex EXCEPT !.shared = @ \ {t}]
           /\ IF found # Nullopt
              THEN /\ handedOut' = handedOut \cup {<<typeCalls[t].type, ValueOf(found)>>}
                   /\ typeCalls' = [typeCalls EXCEPT ![t] = NoCall]
              ELSE /\ handedOut' = handedOut
                   /\ typeCalls' = [typeCalls EXCEPT ![t].pc = "missed"]
    /\ UNCHANGED <<s_typeMap, s_nextTypeId, cleared>>

\* Line 43: std::unique_lock lock(s_mutex)
LockUnique(t) ==
    /\ typeCalls[t].pc = "missed"
    /\ s_mutex.unique = {} /\ s_mutex.shared = {}
    /\ s_mutex' = [s_mutex EXCEPT !.unique = {t}]
    /\ typeCalls' = [typeCalls EXCEPT ![t].pc = "unique"]
    /\ UNCHANGED <<s_typeMap, s_nextTypeId, handedOut, cleared>>

\* Lines 46-52 without the second check.
CheckAgain_CreatesAnyway(typeIndex) ==
    [id |-> s_nextTypeId, nextTypeId |-> s_nextTypeId + 1,
     typeMap |-> Put(s_typeMap, typeIndex, s_nextTypeId)]

\* Lines 46-52: the second check, and the new id when the type is still absent.
CheckAgain(typeIndex) ==
    IF Find(typeIndex) # Nullopt
    THEN [id |-> ValueOf(Find(typeIndex)), nextTypeId |-> s_nextTypeId, typeMap |-> s_typeMap]
    ELSE [id |-> s_nextTypeId, nextTypeId |-> s_nextTypeId + 1,
          typeMap |-> Put(s_typeMap, typeIndex, s_nextTypeId)]

\* The rest of GetTypeId under the unique lock, and its return.
SecondCheck(t) ==
    /\ typeCalls[t].pc = "unique"
    /\ LET r == CheckAgain(typeCalls[t].type)
       IN  /\ s_typeMap' = r.typeMap
           /\ s_nextTypeId' = r.nextTypeId
           /\ handedOut' = handedOut \cup {<<typeCalls[t].type, r.id>>}
    /\ s_mutex' = [s_mutex EXCEPT !.unique = {}]
    /\ typeCalls' = [typeCalls EXCEPT ![t] = NoCall]
    /\ UNCHANGED cleared

\* TypeInformation::Clear(), called by a thread that is in no GetTypeId call.
Clear(t) ==
    /\ typeCalls[t].pc = "idle"
    /\ s_mutex.unique = {} /\ s_mutex.shared = {}
    /\ s_typeMap # EmptyMap
    /\ s_typeMap' = EmptyMap
    /\ s_nextTypeId' = 0
    /\ cleared' = TRUE
    /\ UNCHANGED <<s_mutex, typeCalls, handedOut>>

NextType ==
    /\ \E t \in Threads :
           \/ \E K \in Types : LockShared(t, K)
           \/ FirstCheck(t)
           \/ LockUnique(t)
           \/ SecondCheck(t)
           \/ Clear(t)
    /\ UNCHANGED typeOthers

IdleType == InitType

-----------------------------------------------------------------------------
(***************************************************************************)
(* Shader include resolver: src/Graphics/Shaders/Parser/ShaderIncludes.hpp *)
(* and ShaderIncludes.cpp                                                  *)
(*                                                                         *)
(* A source is a sequence of lines; a line is <<"#include", filename>>,    *)
(* <<"#import", filename>> or <<"text", text>>.  A path is <<directory,    *)
(* filename>>, the empty path is <<>>.                                     *)
(***************************************************************************)

\* Bound of the include resolver model.
MaxLines == 2      \* lines of the source handed to resolveIncludes

MAX_INCLUDE_DEPTH == 32

\* The include directories the constructor adds.
DefaultIncludeDirs == <<".", "./Shaders", "./Shaders/Include">>

\* std::filesystem::canonical of a directory, the process running in /app; the
\* empty directory is that of a bare relative filename.
CanonicalDir(dir) ==
    CASE dir \in {"", "."} -> "/app"
      [] dir = "./Shaders" -> "/app/Shaders"
      [] dir = "./Shaders/Include" -> "/app/Shaders/Include"
      [] OTHER -> dir

\* The directories on disk.
Directories == {"/app", "/app/Shaders", "/app/Shaders/Include"}

\* The paths handed to addIncludeDirectory.
AddablePaths == {".\\Shaders", "./Shaders/Include", "./Missing"}

\* ShaderIncludeUtils::normalizePath, over the paths in use: every backslash
\* becomes a slash.
normalizePath(path) == IF path = ".\\Shaders" THEN "./Shaders" ELSE path

\* The base paths handed to resolveIncludes and the files handed to
\* getDependencies.
BasePaths == {"", "./Shaders"}
DependencyRoots ==
    {<<"/app/Shaders", "lighting.glsl">>, <<"./Shaders", "common.glsl">>,
     <<"./Shaders", "missing.glsl">>}

\* The include files on disk: common.glsl has no directive, lighting.glsl
\* includes common.glsl and imports itself.
IncludePaths ==
    {<<"/app/Shaders", "common.glsl">>, <<"/app/Shaders", "lighting.glsl">>}

FileSystem ==
    [path \in IncludePaths |->
        IF path[2] = "common.glsl"
        THEN << <<"text", "float sq(float x);">> >>
        ELSE << <<"#include", "common.glsl">>,
                <<"#import", "lighting.glsl">>,
                <<"text", "vec3 light(vec3 n);">> >>]

\* The lines a source is made of.
SourceLines ==
    { <<"#include", "common.glsl">>, <<"#import", "common.glsl">>,
      <<"#include", "lighting.glsl">>, <<"#include", "missing.glsl">>,
      <<"text", "void main() {}">> }

Sources == UNION {[1..n -> SourceLines] : n \in 0..MaxLines}

NoIncludeOp ==
    [op |-> "none", useImportSemantics |-> FALSE, result |-> Nullopt]

InitInclude ==
    /\ includeDirs_ = DefaultIncludeDirs
    /\ includeCache_ = EmptyMap
    /\ importedFiles_ = {}
    /\ lastError_ = ""
    /\ trackDepth_ = FALSE
    /\ lastIncludeOp = NoIncludeOp

\* ShaderIncludeUtils::isIncludeDirective: the line is #include or #import
\* followed by a delimited filename.
isIncludeDirective(line) == line[1] \in {"#include", "#import"}

combinePaths(base, relative) == <<base, relative>>

Exists(path) == <<CanonicalDir(path[1]), path[2]>> \in DOMAIN FileSystem

Canonical(path) == <<CanonicalDir(path[1]), path[2]>>

getDirectory(filepath) == filepath[1]

DirectoryExists(dir) == CanonicalDir(dir) \in Directories

\* findIncludeFile: relative to the base path first, then each include
\* directory in order, then the filename as it is; the empty path when the
\* file is nowhere.
findIncludeFile(includeDirs, filename, basePath) ==
    LET found == {i \in 1..Len(includeDirs) :
                    Exists(combinePaths(includeDirs[i], filename))}
    IN  IF basePath # "" /\ Exists(combinePaths(basePath, filename))
        THEN Canonical(combinePaths(basePath, filename))
        ELSE IF found # {}
             THEN Canonical(combinePaths(includeDirs[LeastOf(found)], filename))
             ELSE IF Exists(combinePaths("", filename))
                  THEN Canonical(combinePaths("", filename))
                  ELSE <<>>

\* loadInclude: the cached include, else the file, which is then cached; a
\* file that cannot be opened is not cached.
loadInclude(cache, filepath) ==
    IF filepath \in DOMAIN cache
    THEN [cache |-> cache, content |-> cache[filepath], opened |-> TRUE]
    ELSE IF ~Exists(filepath)
    THEN [cache |-> cache, content |-> <<>>, opened |-> FALSE]
    ELSE [cache |-> Put(cache, filepath, FileSystem[Canonical(filepath)]),
          content |-> FileSystem[Canonical(filepath)], opened |-> TRUE]

\* The resolver's members a resolution reads and writes.
Resolver(dirs, cache, imported, error, track) ==
    [includeDirs_ |-> dirs, includeCache_ |-> cache, importedFiles_ |-> imported,
     lastError_ |-> error, trackDepth_ |-> track]

RECURSIVE resolveIncludesRecursive(_, _, _, _, _)
RECURSIVE ResolveLine(_, _, _, _, _, _, _)

\* The body of the while loop of resolveIncludesRecursive for the line
\* lineNumber, and the lines after it.  processedFiles is handed down with
\* the file added and is the caller's again afterwards, as the insert of
\* line 160 and the erase of line 199 make it.
ResolveLine(self, source, lineNumber, result, currentPath, processedFiles, depth) ==
    IF lineNumber > Len(source)
    THEN [self |-> self, result |-> Some(result)]
    ELSE
    LET line == source[lineNumber]
        filename == line[2]
        isImport == line[1] = "#import"
        includeFilePath == findIncludeFile(self.includeDirs_, filename, currentPath)
        include == loadInclude(self.includeCache_, includeFilePath)
        marked == [self EXCEPT !.includeCache_ = include.cache,
                               !.importedFiles_ =
                                   IF isImport THEN @ \cup {includeFilePath} ELSE @]
        processedInclude ==
            resolveIncludesRecursive(marked, include.content,
                                     getDirectory(includeFilePath),
                                     processedFiles \cup {includeFilePath}, depth + 1)
        begin == IF self.trackDepth_
                 THEN << <<"// [Begin include:", filename>> >>
                 ELSE << <<"// #include", filename>> >>
        end == IF self.trackDepth_
               THEN << <<"// [End include:", filename>> >> ELSE <<>>
    IN  IF ~isIncludeDirective(line)
        THEN ResolveLine(self, source, lineNumber + 1, Append(result, line),
                         currentPath, processedFiles, depth)
        ELSE IF includeFilePath = <<>>
        THEN [self |-> [self EXCEPT !.lastError_ = "Failed to find include file"],
              result |-> Nullopt]
        ELSE IF includeFilePath \in processedFiles
        THEN ResolveLine(self, source, lineNumber + 1,
                         IF self.trackDepth_
                         THEN Append(result, <<"// [Circular include skipped:", filename>>)
                         ELSE result,
                         currentPath, processedFiles, depth)
        ELSE IF isImport /\ includeFilePath \in self.importedFiles_
        THEN ResolveLine(self, source, lineNumber + 1,
                         IF self.trackDepth_
                         THEN Append(result, <<"// [Already imported:", filename>>)
                         ELSE result,
                         currentPath, processedFiles, depth)
        ELSE IF ~include.opened
        THEN [self |-> [self EXCEPT !.lastError_ = "Failed to open include file"],
              result |-> Nullopt]
        ELSE IF processedInclude.result = Nullopt
        THEN processedInclude
        ELSE ResolveLine(processedInclude.self, source, lineNumber + 1,
                         result \o begin \o ValueOf(processedInclude.result) \o end,
                         currentPath, processedFiles, depth)

resolveIncludesRecursive(self, source, currentPath, processedFiles, depth) ==
    IF depth > MAX_INCLUDE_DEPTH
    THEN [self |-> [self EXCEPT !.lastError_ = "Maximum include depth exceeded"],
          result |-> Nullopt]
    ELSE ResolveLine(self, source, 1, <<>>, currentPath, processedFiles, depth)

\* resolveIncludes(source, basePath, useImportSemantics): the imported files
\* are forgotten unless import semantics are asked for, then the source is
\* resolved with no file in processing.
resolveIncludes(self, source, basePath, useImportSemantics) ==
    resolveIncludesRecursive(
        [self EXCEPT !.importedFiles_ = IF ~useImportSemantics THEN {} ELSE @],
        source, basePath, {}, 0)

ResolveIncludes(source, basePath, useImportSemantics) ==
    LET done == resolveIncludes(
                    Resolver(includeDirs_, includeCache_, importedFiles_, lastError_,
                             trackDepth_),
                    source, basePath, useImportSemantics)
    IN  /\ includeCache_' = done.self.includeCache_
        /\ importedFiles_' = done.self.importedFiles_
        /\ lastError_' = done.self.lastError_
        /\ lastIncludeOp' = [op |-> "resolveIncludes",
                             useImportSemantics |-> useImportSemantics,
                             result |-> done.result]
        /\ UNCHANGED <<includeDirs_, trackDepth_>>

RECURSIVE collectDeps(_, _)
RECURSIVE CollectLine(_, _, _, _)

\* The while loop of the lambda collectDeps of getDependencies for the line
\* lineNumber of the content of file, and the lines after it; found carries
\* the resolver, the dependencies vector and the visited set.
CollectLine(found, file, content, lineNumber) ==
    IF lineNumber > Len(content) THEN found
    ELSE
    LET line == content[lineNumber]
        includePath == findIncludeFile(found.self.includeDirs_, line[2], getDirectory(file))
    IN  IF isIncludeDirective(line) /\ includePath # <<>>
        THEN CollectLine(
                 collectDeps([found EXCEPT !.dependencies = Append(@, includePath)],
                             includePath),
                 file, content, lineNumber + 1)
        ELSE CollectLine(found, file, content, lineNumber + 1)

collectDeps(found, file) ==
    IF file \in found.visited THEN found
    ELSE LET include == loadInclude(found.self.includeCache_, file)
             seen == [found EXCEPT !.visited = @ \cup {file}]
         IN  IF ~include.opened
             THEN [seen EXCEPT !.self.lastError_ = "Failed to open include file"]
             ELSE CollectLine([seen EXCEPT !.self.includeCache_ = include.cache],
                              file, include.content, 1)

\* getDependencies(filepath): the include paths in the order the directives
\* are met, a file entered once.
getDependencies(self, filepath) ==
    collectDeps([self |-> self, dependencies |-> <<>>, visited |-> {}], filepath)

GetDependencies(filepath) ==
    LET done == getDependencies(
                    Resolver(includeDirs_, includeCache_, importedFiles_, lastError_,
                             trackDepth_),
                    filepath)
    IN  /\ includeCache_' = done.self.includeCache_
        /\ lastError_' = done.self.lastError_
        /\ lastIncludeOp' = [NoIncludeOp EXCEPT !.op = "getDependencies",
                                                !.result = Some(done.dependencies)]
        /\ UNCHANGED <<includeDirs_, importedFiles_, trackDepth_>>

\* addIncludeDirectory(path): a directory that exists and is not in the list
\* is appended.
AddIncludeDirectory(path) ==
    LET normalized == normalizePath(path)
    IN  /\ includeDirs_' =
               IF ~DirectoryExists(normalized) THEN includeDirs_
               ELSE IF \E i \in DOMAIN includeDirs_ : includeDirs_[i] = normalized
               THEN includeDirs_
               ELSE Append(includeDirs_, normalized)
        /\ lastIncludeOp' = [NoIncludeOp EXCEPT !.op = "addIncludeDirectory"]
        /\ UNCHANGED <<includeCache_, importedFiles_, lastError_, trackDepth_>>

\* clearIncludeDirectories()
ClearIncludeDirectories ==
    /\ includeDirs_' = <<>>
    /\ lastIncludeOp' = [NoIncludeOp EXCEPT !.op = "clearIncludeDirectories"]
    /\ UNCHANGED <<includeCache_, importedFiles_, lastError_, trackDepth_>>

\* clearCache()
ClearCache ==
    /\ includeCache_' = EmptyMap
    /\ importedFiles_' = {}
    /\ lastIncludeOp' = [NoIncludeOp EXCEPT !.op = "clearCache"]
    /\ UNCHANGED <<includeDirs_, lastError_, trackDepth_>>

\* setTrackIncludeDepth(enable)
SetTrackIncludeDepth(enable) ==
    /\ trackDepth_' = enable
    /\ lastIncludeOp' = [NoIncludeOp EXCEPT !.op = "setTrackIncludeDepth"]
    /\ UNCHANGED <<includeDirs_, includeCache_, importedFiles_, lastError_>>

NextInclude ==
    \/ \E source \in Sources, basePath \in BasePaths, useImportSemantics \in BOOLEAN :
           ResolveIncludes(source, basePath, useImportSemantics) /\ UNCHANGED includeOthers
    \/ \E filepath \in DependencyRoots : GetDependencies(filepath) /\ UNCHANGED includeOthers
    \/ \E path \in AddablePaths : AddIncludeDirectory(path) /\ UNCHANGED includeOthers
    \/ ClearIncludeDirectories /\ UNCHANGED includeOthers
    \/ ClearCache /\ UNCHANGED includeOthers
    \/ \E enable \in BOOLEAN : SetTrackIncludeDepth(enable) /\ UNCHANGED includeOthers

IdleInclude == InitInclude

SpecCmdInit ==
    /\ InitCmd
    /\ IdleFrame
    /\ IdleBuf
    /\ IdleDev
    /\ IdleScore
    /\ IdleQueue
    /\ IdleShader
    /\ IdleFb
    /\ IdleHandler
    /\ IdleEngine
    /\ IdleBundle
    /\ IdleType
    /\ IdleInclude

SpecCmd == SpecCmdInit /\ [][NextCmd]_vars

SpecFrameInit ==
    /\ InitFrame
    /\ IdleCmd
    /\ IdleBuf
    /\ IdleDev
    /\ IdleScore
    /\ IdleQueue
    /\ IdleShader
    /\ IdleFb
    /\ IdleHandler
    /\ IdleEngine
    /\ IdleBundle
    /\ IdleType
    /\ IdleInclude

SpecFrame == SpecFrameInit /\ [][NextFrame]_vars

\* The device at rest: no fences, nothing submitted.
IdleDevice ==
    /\ fences = [f \in {} |-> "none"]
    /\ pending = <<>>
    /\ lastSubmit = NoSubmission

SpecBufInit ==
    /\ InitBuf
    /\ IdleDevice
    /\ IdleCmd
    /\ IdleFrame
    /\ IdleDev
    /\ IdleScore
    /\ IdleQueue
    /\ IdleShader
    /\ IdleFb
    /\ IdleHandler
    /\ IdleEngine
    /\ IdleBundle
    /\ IdleType
    /\ IdleInclude

SpecBuf == SpecBufInit /\ [][NextBuf]_vars

SpecDevInit ==
    /\ InitDev
    /\ IdleDevice
    /\ IdleCmd
    /\ IdleFrame
    /\ IdleBuf
    /\ IdleScore
    /\ IdleQueue
    /\ IdleShader
    /\ IdleFb
    /\ IdleHandler
    /\ IdleEngine
    /\ IdleBundle
    /\ IdleType
    /\ IdleInclude

SpecDev == SpecDevInit /\ [][NextDev]_vars

SpecScoreInit ==
    /\ InitScore
    /\ IdleDevice
    /\ IdleCmd
    /\ IdleFrame
    /\ IdleBuf
    /\ IdleDev
    /\ IdleQueue
    /\ IdleShader
    /\ IdleFb
    /\ IdleHandler
    /\ IdleEngine
    /\ IdleBundle
    /\ IdleType
    /\ IdleInclude

SpecScore == SpecScoreInit /\ [][NextScore]_vars

SpecQueueInit ==
    /\ InitQueue
    /\ IdleDevice
    /\ IdleCmd
    /\ IdleFrame
    /\ IdleBuf
    /\ IdleDev
    /\ IdleScore
    /\ IdleShader
    /\ IdleFb
    /\ IdleHandler
    /\ IdleEngine
    /\ IdleBundle
    /\ IdleType
    /\ IdleInclude

SpecQueue == SpecQueueInit /\ [][NextQueue]_vars

SpecLdInit ==
    /\ InitLd
    /\ IdleDevice
    /\ IdleCmd
    /\ IdleFrame
    /\ IdleBuf
    /\ IdleDev
    /\ IdleScore
    /\ IdleShader
    /\ IdleFb
    /\ IdleHandler
    /\ IdleEngine
    /\ IdleBundle
    /\ IdleType
    /\ IdleInclude

SpecLd == SpecLdInit /\ [][NextLd]_vars

SpecShaderInit ==
    /\ InitShader
    /\ IdleDevice
    /\ IdleCmd
    /\ IdleFrame
    /\ IdleBuf
    /\ IdleDev
    /\ IdleScore
    /\ IdleQueue
    /\ IdleFb
    /\ IdleHandler
    /\ IdleEngine
    /\ IdleBundle
    /\ IdleType
    /\ IdleInclude

SpecShader == SpecShaderInit /\ [][NextShader]_vars

SpecFbInit ==
    /\ InitFb
    /\ IdleDevice
    /\ IdleCmd
    /\ IdleFrame
    /\ IdleBuf
    /\ IdleDev
    /\ IdleScore
    /\ IdleQueue
    /\ IdleShader
    /\ IdleHandler
    /\ IdleEngine
    /\ IdleBundle
    /\ IdleType
    /\ IdleInclude

SpecFb == SpecFbInit /\ [][NextFb]_vars

SpecHandlerInit ==
    /\ InitHandler
    /\ IdleDevice
    /\ IdleCmd
    /\ IdleFrame
    /\ IdleBuf
    /\ IdleDev
    /\ IdleScore
    /\ IdleQueue
    /\ IdleShader
    /\ IdleFb
    /\ IdleEngine
    /\ IdleBundle
    /\ IdleType
    /\ IdleInclude

SpecHandler == SpecHandlerInit /\ [][NextHandler]_vars

SpecEngineInit ==
    /\ InitEngine
    /\ IdleDevice
    /\ IdleCmd
    /\ IdleFrame
    /\ IdleBuf
    /\ IdleDev
    /\ IdleScore
    /\ IdleQueue
    /\ IdleShader
    /\ IdleFb
    /\ IdleHandler
    /\ IdleBundle
    /\ IdleType
    /\ IdleInclude

SpecEngine == SpecEngineInit /\ [][NextEngine]_vars

SpecBundleInit ==
    /\ InitBundle
    /\ IdleDevice
    /\ IdleCmd
    /\ IdleFrame
    /\ IdleBuf
    /\ IdleDev
    /\ IdleScore
    /\ IdleQueue
    /\ IdleShader
    /\ IdleFb
    /\ IdleHandler
    /\ IdleEngine
    /\ IdleType
    /\ IdleInclude

SpecBundle == SpecBundleInit /\ [][NextBundle]_vars

SpecTypeInit ==
    /\ InitType
    /\ IdleDevice
    /\ IdleCmd
    /\ IdleFrame
    /\ IdleBuf
    /\ IdleDev
    /\ IdleScore
    /\ IdleQueue
    /\ IdleShader
    /\ IdleFb
    /\ IdleHandler
    /\ IdleEngine
    /\ IdleBundle
    /\ IdleInclude

SpecType == SpecTypeInit /\ [][NextType]_vars

SpecIncludeInit ==
    /\ InitInclude
    /\ IdleDevice
    /\ IdleCmd
    /\ IdleFrame
    /\ IdleBuf
    /\ IdleDev
    /\ IdleScore
    /\ IdleQueue
    /\ IdleShader
    /\ IdleFb
    /\ IdleHandler
    /\ IdleEngine
    /\ IdleBundle
    /\ IdleType

SpecInclude == SpecIncludeInit /\ [][NextInclude]_vars

-----------------------------------------------------------------------------

-----------------------------------------------------------------------------
(***************************************************************************)
(* Properties                                                              *)
(***************************************************************************)

SlotBusy(s, i) == \E sub \in Pending : sub.commandBuffer = FrameCommandBuffer(s, i)

\* C1: within a surface, the command buffer of a ring slot is not re-recorded
\* or re-submitted while the slot's previous submission is unfinished: from
\* the wait on the slot's fence until the submit, the slot has no pending
\* submission and its fence is signalled, and no recording command buffer is
\* pending on the GPU.
C1_SlotNotReusedInFlight ==
    \A s \in Surfaces : \A i \in Slots :
        /\ perSurfaceBuffers[s].commandBuffers[i].running => ~SlotBusy(s, i)
        /\ (/\ pcFrame.surface = s
            /\ i = CurrentSlot(s)
            /\ pcFrame.step \in {"acquire", "record", "submit"})
           => /\ ~SlotBusy(s, i)
              /\ fences[FlightFence(s, i)] = "signalled"

\* A slot is re-recorded while the later slot of the same ring is still in
\* flight: the ring has wrapped around and the slot is in its second use.
C1_Witness ==
    \E s \in Surfaces :
        /\ pcFrame = [surface |-> s, step |-> "submit"]
        /\ CurrentSlot(s) = 0
        /\ perSurfaceBuffers[s].commandBuffers[0].running
        /\ SlotBusy(s, RingSize - 1)

\* C2: SetFramebufferResized(id) sets the framebufferResized flag of surface
\* id and changes nothing else: not currentFrame, the ring, the command
\* buffers, another surface, the swapchains, the fences or the GPU's work.
C2_ResizeOnlySetsFlag ==
    [][\A id \in Surfaces : SetFramebufferResized(id) =>
             /\ perSurfaceBuffers'[id].framebufferResized = TRUE
             /\ perSurfaceBuffers'[id].currentFrame = perSurfaceBuffers[id].currentFrame
             /\ perSurfaceBuffers'[id].presentCompletes = perSurfaceBuffers[id].presentCompletes
             /\ perSurfaceBuffers'[id].renderCompletes = perSurfaceBuffers[id].renderCompletes
             /\ perSurfaceBuffers'[id].flightFences = perSurfaceBuffers[id].flightFences
             /\ perSurfaceBuffers'[id].commandBuffers = perSurfaceBuffers[id].commandBuffers
             /\ \A s \in Surfaces \ {id} : perSurfaceBuffers'[s] = perSurfaceBuffers[s]
             /\ swapchains' = swapchains
             /\ fences' = fences
             /\ pending' = pending
             /\ pcFrame' = pcFrame]_vars

\* A resize has arrived in the middle of a frame, with work in flight and the
\* ring advanced, while the other surfaces have seen none.
C2_Witness ==
    \E id \in Surfaces :
        /\ perSurfaceBuffers[id].framebufferResized
        /\ \A s \in Surfaces \ {id} : ~perSurfaceBuffers[s].framebufferResized
        /\ perSurfaceBuffers[id].currentFrame = 1
        /\ pcFrame = [surface |-> id, step |-> "present"]
        /\ pending # <<>>

Alternates(calls) ==
    \A k \in 1..Len(calls) :
        calls[k] = IF k % 2 = 1 THEN "vkBeginCommandBuffer" ELSE "vkEndCommandBuffer"

\* C3: the vkBeginCommandBuffer and vkEndCommandBuffer calls alternate,
\* starting with a begin, and running is true exactly after a begin with no
\* end yet; a Begin on a recording buffer and an End on a buffer that is not
\* recording change nothing.
C3_BeginEndIdempotent ==
    /\ [](Alternates(recCalls) /\ (running <=> Len(recCalls) % 2 = 1))
    /\ [][(/\ lastCall' # lastCall
           /\ \/ lastCall'.op = "Begin" /\ lastCall'.wasRunning
              \/ lastCall'.op = "End" /\ ~lastCall'.wasRunning)
          => UNCHANGED <<running, recCalls, fences, pending, lastSubmit>>]_vars

\* Begin was called on a buffer that was already recording, after a full
\* begin/end round.
C3_Witness ==
    /\ lastCall = [op |-> "Begin", wasRunning |-> TRUE]
    /\ Len(recCalls) = 3

\* C4: when SubmitIdle has returned, its submission went to the queue of the
\* buffer's queue type with a fence created for it (unsignalled when
\* submitted, recording ended), the GPU has completed that submission, the
\* fence is destroyed and the buffer is not recording.
C4_SubmitIdleBlocksUntilDone ==
    (pcCmd = "ready" /\ lastCall.op = "SubmitIdle") =>
        /\ ~running
        /\ lastSubmit.by = "SubmitIdle"
        /\ lastSubmit.seq = lastCall.seq
        /\ lastSubmit.fence = lastCall.fence
        /\ lastSubmit.fence \notin CallerFences \cup {VK_NULL_HANDLE}
        /\ lastSubmit.fenceAtSubmit = "unsignalled"
        /\ ~lastSubmit.recordingAtSubmit
        /\ lastSubmit.queue = IF queueType = "VK_QUEUE_GRAPHICS_BIT"
                              THEN <<"GraphicsQueue">> ELSE <<"computeQueue">>
        /\ queueType \in {"VK_QUEUE_GRAPHICS_BIT", "VK_QUEUE_COMPUTE_BIT"}
        /\ \A sub \in Pending : sub.seq # lastCall.seq
        /\ fences[lastCall.fence] = "destroyed"

\* SubmitIdle returned on a compute buffer that was recording when it was
\* called (one begin, one end), for the second time.
C4_Witness ==
    /\ pcCmd = "ready"
    /\ lastCall.op = "SubmitIdle"
    /\ queueType = "VK_QUEUE_COMPUTE_BIT"
    /\ lastCall.fence = IdleFence(2)
    /\ recCalls = <<"vkBeginCommandBuffer", "vkEndCommandBuffer">>

\* C5: a submission made by Submit is issued with recording ended and with
\* its fence, when not null, unsignalled; it carries the wait semaphore and
\* the signal semaphore exactly when they are not null; and Submit returns
\* without blocking on the fence (the thread blocks only inside SubmitIdle).
C5_SubmitResetsFenceFirst ==
    /\ lastSubmit.by = "Submit" =>
          /\ ~lastSubmit.recordingAtSubmit
          /\ lastSubmit.fence # VK_NULL_HANDLE => lastSubmit.fenceAtSubmit = "unsignalled"
    /\ (pcCmd = "ready" /\ lastCall.op = "Submit") =>
          /\ ~running
          /\ lastSubmit.seq = lastCall.seq
          /\ lastSubmit.fence = lastCall.fence
          /\ lastSubmit.info.waitSemaphoreCount =
                (IF lastCall.waitSemaphore = VK_NULL_HANDLE THEN 0 ELSE 1)
          /\ lastSubmit.info.pWaitSemaphores =
                (IF lastCall.waitSemaphore = VK_NULL_HANDLE THEN <<>> ELSE <<lastCall.waitSemaphore>>)
          /\ lastSubmit.info.signalSemaphoreCount =
                (IF lastCall.signalSemaphore = VK_NULL_HANDLE THEN 0 ELSE 1)
          /\ lastSubmit.info.pSignalSemaphores =
                (IF lastCall.signalSemaphore = VK_NULL_HANDLE THEN <<>> ELSE <<lastCall.signalSemaphore>>)
    /\ pcCmd = "SubmitIdle_wait" => lastSubmit.by = "SubmitIdle"

\* Submit has returned while its submission is still pending and its fence,
\* signalled by an earlier submission, is unsignalled again.
C5_Witness ==
    /\ lastCall.op = "Submit"
    /\ pcCmd = "ready"
    /\ lastCall.fence # VK_NULL_HANDLE
    /\ lastCall.waitSemaphore # VK_NULL_HANDLE
    /\ lastCall.signalSemaphore = VK_NULL_HANDLE
    /\ lastCall.seq = 2
    /\ fences[lastCall.fence] = "unsignalled"
    /\ \E sub \in Pending : sub.seq = lastCall.seq /\ sub.fence = lastCall.fence

-----------------------------------------------------------------------------
(***************************************************************************)
(* Properties of the memory-backed resource layer                          *)
(***************************************************************************)

Owners(a) ==
    {b \in BufferIds : buffers[b].life = "alive" /\ buffers[b].allocation_ = VmaAllocationHandle(a)}

IsEmpty(o) ==
    /\ o.buffer_ = VK_NULL_HANDLE
    /\ o.allocation_ = VK_NULL_HANDLE
    /\ o.mappedData_ = VK_NULL_HANDLE

\* No allocation is freed twice, a live allocation has exactly one owner, a
\* freed one has none, and once every object is gone every allocation has
\* been freed once.
C6_Ownership ==
    /\ \A a \in AllocIds :
          /\ vma[a].nFrees <= 1
          /\ vma[a].state = "freed" <=> vma[a].nFrees = 1
          /\ vma[a].state = "live" => Cardinality(Owners(a)) = 1
          /\ vma[a].state # "live" => Owners(a) = {}
    /\ \A b \in BufferIds :
          /\ buffers[b].buffer_ = VK_NULL_HANDLE <=> buffers[b].allocation_ = VK_NULL_HANDLE
          /\ buffers[b].life # "alive" => buffers[b].buffer_ = VK_NULL_HANDLE
    /\ (\A b \in BufferIds : buffers[b].life # "alive") =>
          \A a \in 1..nAllocs : vma[a].nFrees = 1

FreesOnly(allocation) ==
    \A a \in AllocIds :
        vma'[a].nFrees = vma[a].nFrees + (IF allocation = VmaAllocationHandle(a) THEN 1 ELSE 0)

Transferred(dst, other) ==
    /\ IsEmpty(buffers'[other])
    /\ buffers'[dst].buffer_ = buffers[other].buffer_
    /\ buffers'[dst].allocation_ = buffers[other].allocation_
    /\ buffers'[dst].mappedData_ = buffers[other].mappedData_

C6_Step ==
    /\ lastBufOp'.op = "MoveConstruct" =>
          /\ Transferred(lastBufOp'.obj, lastBufOp'.other)
          /\ FreesOnly(VK_NULL_HANDLE)
    /\ lastBufOp'.op = "MoveAssign" /\ lastBufOp'.obj # lastBufOp'.other =>
          /\ Transferred(lastBufOp'.obj, lastBufOp'.other)
          /\ FreesOnly(buffers[lastBufOp'.obj].allocation_)
    /\ lastBufOp'.op = "MoveAssign" /\ lastBufOp'.obj = lastBufOp'.other =>
          /\ buffers' = buffers
          /\ vma' = vma
    /\ lastBufOp'.op = "~Buffer" =>
          FreesOnly(buffers[lastBufOp'.obj].allocation_)

\* C6: across construction, move-construction, move-assignment and
\* destruction every allocation is freed exactly once: a move empties the
\* source (handle, allocation and mapped pointer null), whose destructor then
\* frees nothing, and hands the allocation to the destination; move-assignment
\* frees the destination's previous allocation once and self-assignment
\* frees nothing.
C6_FreedExactlyOnce == []C6_Ownership /\ [][C6_Step]_vars

\* A move-assignment has just replaced an allocation, which is freed, and the
\* destination owns the source's allocation.
C6_Witness ==
    /\ lastBufOp.op = "MoveAssign"
    /\ lastBufOp.obj # lastBufOp.other
    /\ IsEmpty(buffers[lastBufOp.other])
    /\ \E a \in AllocIds, f \in AllocIds :
          /\ Owners(a) = {lastBufOp.obj}
          /\ vma[f].nFrees = 1

CallsOf(name, calls) == {i \in 1..Len(calls) : calls[i][1] = name}

C7_Step ==
    /\ lastBufOp'.op = "UnmapMemory" /\ buffers[lastBufOp'.obj].persistentlyMapped_ =>
          /\ CallsOf("vmaUnmapMemory", lastBufOp'.calls) = {}
          /\ vma' = vma
          /\ buffers'[lastBufOp'.obj].mappedData_ = buffers[lastBufOp'.obj].mappedData_
    /\ /\ lastBufOp'.op = "~Buffer"
       /\ buffers[lastBufOp'.obj].mappedData_ # VK_NULL_HANDLE
       /\ ~buffers[lastBufOp'.obj].persistentlyMapped_
       => LET a == AllocOf(buffers[lastBufOp'.obj].allocation_)
          IN /\ lastBufOp'.calls = <<<<"vmaUnmapMemory", a>>, <<"vmaDestroyBuffer", a>>>>
             /\ vma'[a].mapCount = 0
             /\ vma'[a].state = "freed"

\* C7: UnmapMemory on a persistently mapped buffer never calls the
\* allocator's unmap and never clears the mapped pointer; destroying a buffer
\* that is mapped and not persistently mapped issues exactly one unmap,
\* followed by the free of the allocation.
C7_PersistentUnmapNoOp == [][C7_Step]_vars

\* A mapped, not persistently mapped buffer has just been destroyed.
C7_Witness ==
    /\ lastBufOp.op = "~Buffer"
    /\ lastBufOp.wasMapped
    /\ ~lastBufOp.wasPersistent
    /\ CallsOf("vmaUnmapMemory", lastBufOp.calls) # {}

\* C8: a buffer constructed with initial data holds the data, and a flush has
\* been issued if and only if its memory type is not host-coherent.
C8_FlushIffNotCoherent ==
    lastBufOp.op = "Buffer" /\ lastBufOp.data # <<>> /\ ~bufFatal =>
        /\ CallsOf("std::ranges::copy", lastBufOp.calls) # {}
        /\ CallsOf("vmaFlushAllocation", lastBufOp.calls) # {} <=> ~lastBufOp.hostCoherent
        /\ Cardinality(CallsOf("vmaFlushAllocation", lastBufOp.calls)) <= 1

-----------------------------------------------------------------------------
(***************************************************************************)
(* Properties of physical device selection                                 *)
(***************************************************************************)

ScoreOf(i) == EnumeratePhysicalDevice(physicalDevices[i])
Enumerated == 1..Len(physicalDevices)

\* C9: the selected device has the highest score of all enumerated devices,
\* and that score is above 0; a device that lacks a required extension
\* scores 0 and is never the selected one; when no enumerated device scores
\* above 0, or none is enumerated, construction ends in an error and selects
\* nothing.
C9_SelectsMaxPositiveScore ==
    /\ \A i \in Enumerated :
          ~(DeviceExtensions \subseteq physicalDevices[i].extensions) =>
              ScoreOf(i) = 0 /\ physicalDevice # VkPhysicalDevice(i)
    /\ pcDev = "constructed" =>
          \E s \in Enumerated :
              /\ physicalDevice = VkPhysicalDevice(s)
              /\ ScoreOf(s) > 0
              /\ \A i \in Enumerated : ScoreOf(i) <= ScoreOf(s)
    /\ pcDev \in {"constructed", "error"} =>
          (pcDev = "error" <=> \A i \in Enumerated : ScoreOf(i) = 0)
    /\ pcDev = "error" => physicalDevice = VK_NULL_HANDLE /\ devError # ""

\* The first of two suitable devices has been selected over a second one of
\* a lower score, next to a device without the swapchain extension.
C9_Witness ==
    /\ pcDev = "constructed"
    /\ Len(physicalDevices) >= 2
    /\ physicalDevice = VkPhysicalDevice(1)
    /\ ScoreOf(1) > ScoreOf(2)
    /\ ScoreOf(2) > 0

\* C10: for a descriptor with every required extension, the score under the
\* device types is strictly ordered discrete > integrated > virtual > CPU,
\* whatever the other fields are, anisotropy penalty included.
C10_TypeOrderStrict ==
    typeScores # NoScores =>
        /\ typeScores["VK_PHYSICAL_DEVICE_TYPE_DISCRETE_GPU"]
               > typeScores["VK_PHYSICAL_DEVICE_TYPE_INTEGRATED_GPU"]
        /\ typeScores["VK_PHYSICAL_DEVICE_TYPE_INTEGRATED_GPU"]
               > typeScores["VK_PHYSICAL_DEVICE_TYPE_VIRTUAL_GPU"]
        /\ typeScores["VK_PHYSICAL_DEVICE_TYPE_VIRTUAL_GPU"]
               > typeScores["VK_PHYSICAL_DEVICE_TYPE_CPU"]

\* A descriptor without anisotropic sampling has been scored: each score is
\* half of what the same descriptor scores with anisotropic sampling.
C10_Witness ==
    /\ typeScores # NoScores
    /\ ~scoreInput.samplerAnisotropy
    /\ scoreInput.maxImageDimension2D = 999
    /\ scoreInput.geometryShader
    /\ typeScores["VK_PHYSICAL_DEVICE_TYPE_CPU"]
           = EnumeratePhysicalDevice([scoreInput EXCEPT
                 !.deviceType = "VK_PHYSICAL_DEVICE_TYPE_CPU", !.samplerAnisotropy = TRUE]) \div 2
    /\ typeScores["VK_PHYSICAL_DEVICE_TYPE_CPU"] > 0

-----------------------------------------------------------------------------
(***************************************************************************)
(* Properties of queue family resolution                                   *)
(***************************************************************************)

Families == 0..(Len(queueFamilies) - 1)
FlagsOf(i) == queueFamilies[i + 1].queueFlags
First(S) == CHOOSE i \in S : \A j \in S : i <= j

DedicatedCompute ==
    {i \in Families : "VK_QUEUE_COMPUTE_BIT" \in FlagsOf(i) /\ "VK_QUEUE_GRAPHICS_BIT" \notin FlagsOf(i)}
TransferOnly == {i \in Families : FlagsOf(i) = {"VK_QUEUE_TRANSFER_BIT"}}
Capable(bit) == {i \in Families : bit \in FlagsOf(i)}

\* C11: the compute role goes to a family that is compute-capable and not
\* graphics-capable whenever there is one, the transfer role to a
\* transfer-only family whenever there is one; without a dedicated family the
\* role goes to the first family in scan order that has the capability.
C11_DedicatedFamiliesPreferred ==
    pcQueue = "done" =>
        /\ DedicatedCompute # {} => queueIndices.computeFamily \in DedicatedCompute
        /\ DedicatedCompute = {} /\ Capable("VK_QUEUE_COMPUTE_BIT") # {} =>
              queueIndices.computeFamily = First(Capable("VK_QUEUE_COMPUTE_BIT"))
        /\ TransferOnly # {} => queueIndices.transferFamily \in TransferOnly
        /\ TransferOnly = {} /\ Capable("VK_QUEUE_TRANSFER_BIT") # {} =>
              queueIndices.transferFamily = First(Capable("VK_QUEUE_TRANSFER_BIT"))

\* Family 0 does graphics, compute and transfer, family 1 compute only: the
\* compute role has gone to family 1, the transfer role stays with family 0.
C11_Witness ==
    /\ pcQueue = "done"
    /\ Len(queueFamilies) = 2
    /\ FlagsOf(0) = {"VK_QUEUE_GRAPHICS_BIT", "VK_QUEUE_COMPUTE_BIT", "VK_QUEUE_TRANSFER_BIT"}
    /\ FlagsOf(1) = {"VK_QUEUE_COMPUTE_BIT"}
    /\ queueIndices.computeFamily = 1
    /\ queueIndices.transferFamily = 0

\* Line 55: a family is taken for presentation when it has a queue and is
\* graphics-capable (graphics and present are assumed identical).
PresentCapable ==
    {i \in Families : queueFamilies[i + 1].queueCount > 0
                      /\ "VK_QUEUE_GRAPHICS_BIT" \in FlagsOf(i)}

\* C12: resolution fails with an error exactly when no family is
\* graphics-capable or no family is present-capable; otherwise it completes
\* with graphics and present indices that name existing families with the
\* capability; a missing compute or transfer family is logged and never makes
\* it fail.
C12_FailsWithoutGraphicsOrPresent ==
    pcQueue \in {"done", "error"} =>
        /\ pcQueue = "error" <=>
              (Capable("VK_QUEUE_GRAPHICS_BIT") = {} \/ PresentCapable = {})
        /\ pcQueue = "error" <=> queueLog.thrown # ""
        /\ pcQueue = "done" =>
              /\ queueIndices.GraphicsFamily \in Capable("VK_QUEUE_GRAPHICS_BIT")
              /\ queueIndices.presentFamily \in PresentCapable
              /\ Capable("VK_QUEUE_COMPUTE_BIT") = {} <=>
                    "No compute queue family found" \in queueLog.warnings
              /\ Capable("VK_QUEUE_TRANSFER_BIT") = {} <=>
                    "No transfer queue family found" \in queueLog.warnings

\* The only graphics-capable family has no queue: resolution has thrown for
\* the missing present family.
C12_Witness ==
    /\ pcQueue = "error"
    /\ Capable("VK_QUEUE_GRAPHICS_BIT") # {}
    /\ PresentCapable = {}
    /\ queueLog.thrown = "Failed to find queue family supporting present"

\* A device with graphics only: resolution has completed and logged both
\* warnings.
C12_WitnessDegraded ==
    /\ pcQueue = "done"
    /\ queueLog.warnings = {"No compute queue family found", "No transfer queue family found"}

-----------------------------------------------------------------------------
(***************************************************************************)
(* Properties of logical device creation                                   *)
(***************************************************************************)

\* C13: every feature enabled in the feature set passed to device creation,
\* in the core, 1.1, 1.2 and 1.3 structs, the descriptor indexing members
\* included, was reported available by the physical device.
C13_RequestedSubsetOfAvailable ==
    pcLd \in {"created", "error"} =>
        /\ deviceCreateInfo.requested.features \subseteq availableFeatures.features
        /\ deviceCreateInfo.requested.vulkan11 \subseteq availableFeatures.vulkan11
        /\ deviceCreateInfo.requested.vulkan12 \subseteq availableFeatures.vulkan12
        /\ deviceCreateInfo.requested.vulkan13 \subseteq availableFeatures.vulkan13

\* A device with descriptor indexing and one of its four members: the device
\* was created with exactly these two enabled in the 1.2 struct.
C13_Witness ==
    /\ pcLd = "created"
    /\ availableFeatures.vulkan12 = {"descriptorIndexing", "runtimeDescriptorArray"}
    /\ deviceCreateInfo.requested.vulkan12 = {"descriptorIndexing", "runtimeDescriptorArray"}

-----------------------------------------------------------------------------
(***************************************************************************)
(* Properties of shader reflection                                         *)
(***************************************************************************)

\* The descriptor bindings the reflected blobs declared, each with the stage
\* of its blob.
Declarations ==
    UNION {{[decl |-> ShaderBlobs[reflected[k].blob].bindings[j], stage |-> reflected[k].stage] :
                j \in DOMAIN ShaderBlobs[reflected[k].blob].bindings} : k \in DOMAIN reflected}

StagesDeclaringBinding(n) == {d.stage : d \in {e \in Declarations : e.decl.binding = n}}
StagesDeclaringName(name) == {d.stage : d \in {e \in Declarations : e.decl.name = name}}
StagesDeclaringBlock(name) ==
    {d.stage : d \in {e \in Declarations :
        /\ e.decl.block.name = name
        /\ e.decl.descriptor_type \in {"VK_DESCRIPTOR_TYPE_UNIFORM_BUFFER",
                                       "VK_DESCRIPTOR_TYPE_STORAGE_BUFFER"}}}

\* C14: after any sequence of reflected stage blobs the descriptor set layout
\* binding list has exactly one entry for each binding number declared and
\* the uniform table one entry for each binding name declared, and the stage
\* flags of an entry are the union of the stages that declared it.
C14_BindingsMergedAcrossStages ==
    /\ \A i, j \in DOMAIN shader.descriptorBindings :
          shader.descriptorBindings[i].binding = shader.descriptorBindings[j].binding => i = j
    /\ {shader.descriptorBindings[i].binding : i \in DOMAIN shader.descriptorBindings}
          = {d.decl.binding : d \in Declarations}
    /\ \A i \in DOMAIN shader.descriptorBindings :
          shader.descriptorBindings[i].stageFlags
              = StagesDeclaringBinding(shader.descriptorBindings[i].binding)
    /\ DOMAIN shader.uniforms = {d.decl.name : d \in Declarations}
    /\ \A name \in DOMAIN shader.uniforms :
          shader.uniforms[name].stageFlags = StagesDeclaringName(name)

\* CameraUBO at binding 0 reflected from a vertex blob and then from a
\* fragment blob: one binding entry and one uniform, both VERTEX|FRAGMENT.
C14_Witness ==
    /\ reflected = <<[blob |-> 1, stage |-> "VK_SHADER_STAGE_VERTEX_BIT"],
                     [blob |-> 1, stage |-> "VK_SHADER_STAGE_FRAGMENT_BIT"]>>
    /\ Len(shader.descriptorBindings) = 1
    /\ shader.descriptorBindings[1].binding = 0
    /\ shader.descriptorBindings[1].stageFlags =
          {"VK_SHADER_STAGE_VERTEX_BIT", "VK_SHADER_STAGE_FRAGMENT_BIT"}
    /\ DOMAIN shader.uniforms = {"CameraUBO"}
    /\ shader.uniforms["CameraUBO"].stageFlags =
          {"VK_SHADER_STAGE_VERTEX_BIT", "VK_SHADER_STAGE_FRAGMENT_BIT"}

\* C15: a uniform or storage block declared under one name in several stages
\* has, once those stages are reflected, the union of the stages as its stage
\* flags.
C15_BlockStagesAreUnion ==
    \A name \in DOMAIN shader.uniformBlocks :
        shader.uniformBlocks[name].stageFlags = StagesDeclaringBlock(name)

-----------------------------------------------------------------------------
(***************************************************************************)
(* Properties of the framebuffers                                          *)
(***************************************************************************)

\* The view the k-th attachment of the stage stands for in the framebuffer of
\* swapchain image i (0-based).
ViewInListOrder(k, i) ==
    CASE stageAttachments[k].type = "Image" -> ViewOfImage(Image2d(k))
      [] stageAttachments[k].type = "Depth" -> DepthView
      [] stageAttachments[k].type = "Swapchain" -> SwapchainView(i)

\* C16: for every attachment list, whatever the bindings of its attachments,
\* construction builds one framebuffer per swapchain image, whose attachment
\* array has one view per attachment in the order of the list: the image
\* created for the k-th attachment, the depth image's view or that swapchain
\* image's view.
C16_AttachmentsInListOrder ==
    pcFb \in {"built", "crashed"} =>
        /\ pcFb = "built"
        /\ DOMAIN framebuffer = 1..imageCount
        /\ \A i \in DOMAIN framebuffer :
              /\ DOMAIN framebuffer[i] = DOMAIN stageAttachments
              /\ \A k \in DOMAIN stageAttachments : framebuffer[i][k] = ViewInListOrder(k, i - 1)

-----------------------------------------------------------------------------
(***************************************************************************)
(* Properties of the uniform and storage handlers                          *)
(***************************************************************************)

AfterPushCall == lastHandlerOp.op \in {"PushSpan", "PushObject"}

\* The pushed bytes lie inside the buffer.
PushInRange == lastHandlerOp.offset + Len(lastHandlerOp.data) <= Len(handler.buffer.bytes)

\* The push passed the size check of the span overload (the object overload
\* has none).
PushSizeChecked ==
    lastHandlerOp.op = "PushSpan" => Len(lastHandlerOp.data) = lastHandlerOp.sizeBefore

\* C17 as stated: for a handler in Normal status, the second of two equal
\* pushes in a row (same bytes, size and offset, no Update in between) makes
\* exactly one comparison and no copy.
C17_SecondPushComparesOnly ==
    lastHandlerOp.repeated /\ lastHandlerOp.firstStatus = "Normal" =>
        lastHandlerOp.compares = 1 /\ lastHandlerOp.copies = 0

\* C17, amended: for a handler with a uniform block and a buffer that is
\* still in Normal status when the second of two equal pushes in a row
\* starts (the first found its bytes in the buffer already), the second push
\* makes exactly one comparison and no copy, and the status stays Normal.
C17_SecondPushWhileNormal ==
    /\ lastHandlerOp.repeated
    /\ lastHandlerOp.statusBefore = "Normal"
    /\ lastHandlerOp.usable
    /\ PushInRange
    => /\ lastHandlerOp.compares = 1
       /\ lastHandlerOp.copies = 0
       /\ handler.handlerStatus_ = "Normal"

\* A storage handler in Normal status has been pushed the bytes of its
\* buffer twice: the second push compared once and copied nothing.
C17_Witness ==
    /\ lastHandlerOp.op = "PushSpan"
    /\ lastHandlerOp.repeated
    /\ lastHandlerOp.firstStatus = "Normal"
    /\ lastHandlerOp.statusBefore = "Normal"
    /\ lastHandlerOp.usable
    /\ lastHandlerOp.data = handler.buffer.bytes
    /\ Len(lastHandlerOp.data) = MaxBytes
    /\ lastHandlerOp.compares = 1
    /\ lastHandlerOp.copies = 0

\* What C18 concludes about the push that ran last: bytes were copied and the
\* status became Changed exactly if the pushed bytes differed from the bytes
\* in the buffer, with one copy; equal bytes copy nothing and leave Normal.
CopiedIffDiffered ==
    /\ (lastHandlerOp.copies >= 1 /\ handler.handlerStatus_ = "Changed") <=> lastHandlerOp.differed
    /\ lastHandlerOp.differed => lastHandlerOp.copies = 1
    /\ ~lastHandlerOp.differed => lastHandlerOp.copies = 0 /\ handler.handlerStatus_ = "Normal"

\* C18 as stated: for a handler in Normal status with an allocated buffer,
\* Push copies and sets Changed if and only if the pushed bytes differ from
\* the bytes in the buffer.
C18_CopiesIffDifferent ==
    /\ AfterPushCall
    /\ lastHandlerOp.statusBefore = "Normal"
    /\ handler.buffer.allocated
    /\ PushSizeChecked
    /\ PushInRange
    => CopiedIffDiffered

\* C18, amended: the same for a handler in Normal status that has a uniform
\* block as well as an allocated buffer.
C18_CopiesIffDifferentWithBlock ==
    /\ AfterPushCall
    /\ lastHandlerOp.statusBefore = "Normal"
    /\ lastHandlerOp.usable
    /\ PushSizeChecked
    /\ PushInRange
    => CopiedIffDiffered /\ lastHandlerOp.compares = 1

\* A uniform handler in Normal status has been pushed one byte at offset 1
\* that differed from the buffer's: one copy, the status is Changed and the
\* buffer holds the byte.
C18_Witness ==
    /\ lastHandlerOp.op = "PushObject"
    /\ lastHandlerOp.statusBefore = "Normal"
    /\ lastHandlerOp.usable
    /\ lastHandlerOp.offset = 1
    /\ Len(lastHandlerOp.data) = 1
    /\ lastHandlerOp.differed
    /\ lastHandlerOp.copies = 1
    /\ handler.handlerStatus_ = "Changed"
    /\ handler.buffer.bytes[2] = lastHandlerOp.data[1]

\* C19: on a uniform or storage handler a Push whose byte count differs from
\* the tracked size sets the status to Reset, and the next Update allocates a
\* buffer of the new tracked size, sets the status to Changed and returns
\* false.
C19_MismatchedPushResets ==
    /\ AfterPushCall /\ Len(lastHandlerOp.data) # lastHandlerOp.sizeBefore =>
          handler.handlerStatus_ = "Reset"
    /\ lastHandlerOp.op = "Update" /\ lastHandlerOp.mismatched # -1 =>
          /\ lastHandlerOp.returned = "false"
          /\ lastHandlerOp.allocated = lastHandlerOp.mismatched
          /\ handler.handlerStatus_ = "Changed"

(***************************************************************************)
(* Engine module scheduler                                                 *)
(***************************************************************************)

ConstructedBefore(id, i) == \E j \in 1..(i - 1) : engineLog[j] = <<"construct", id>>
InitializedBefore(id, i) == \E j \in 1..(i - 1) : engineLog[j] = <<"initialize", id>>

\* C20: during engine construction, every dependency declared by a module has
\* been constructed and has had Initialize() called on it before that module is
\* constructed.
C20_DependenciesInitializedFirst ==
    \A i \in DOMAIN engineLog :
        engineLog[i][1] = "construct" =>
            \A k \in DOMAIN registry[engineLog[i][2]].dependencies :
                LET requireId == registry[engineLog[i][2]].dependencies[k]
                IN  ConstructedBefore(requireId, i) /\ InitializedBefore(requireId, i)

Updates == {i \in DOMAIN tickLog : tickLog[i][1] = "update"}
Passes(stage) == {i \in DOMAIN tickLog : tickLog[i] = <<"pass", stage, 0>>}

UpdatedAtMostOnce ==
    \A i, j \in Updates : tickLog[i][3] = tickLog[j][3] => i = j

\* An Update() call belongs to the pass that started last before it.
UpdatedInOwnPass ==
    \A i \in Updates :
        /\ registry[tickLog[i][3]].stage = tickLog[i][2]
        /\ \E p \in Passes(tickLog[i][2]) :
               p < i /\ \A q \in (p + 1)..(i - 1) : q \in Updates

PassedAtMostOnce == \A stage \in Stage : Cardinality(Passes(stage)) <= 1

\* Type ids are handed out in the order in which the module types are named
\* while they register, so the lower id registered first.
RegisteredBefore(a, b) == a < b

CreatedBefore(a, b) ==
    \E i, j \in DOMAIN engineLog :
        i < j /\ engineLog[i] = <<"construct", a>> /\ engineLog[j] = <<"construct", b>>

\* C21: in each tick Update() is invoked at most once on each module and only
\* in its own stage's pass, each stage is passed at most once, and the modules
\* of a stage are updated in registration order.
C21_UpdatedOncePerTickInRegistrationOrder ==
    /\ UpdatedAtMostOnce
    /\ UpdatedInOwnPass
    /\ PassedAtMostOnce
    /\ \A i, j \in Updates :
           i < j /\ tickLog[i][2] = tickLog[j][2] => RegisteredBefore(tickLog[i][3], tickLog[j][3])

\* C21 (amended): as above, with the modules of a stage updated in the order in
\* which they were created, which is the order of the stage's list.
C21_UpdatedOncePerTickInCreationOrder ==
    /\ UpdatedAtMostOnce
    /\ UpdatedInOwnPass
    /\ PassedAtMostOnce
    /\ \A i, j \in Updates :
           i < j /\ tickLog[i][2] = tickLog[j][2] => CreatedBefore(tickLog[i][3], tickLog[j][3])

C21_Witness ==
    /\ pcEngine = "running"
    /\ \E i, j \in Updates :
           /\ i < j
           /\ tickLog[i][2] = tickLog[j][2]
           /\ RegisteredBefore(tickLog[j][3], tickLog[i][3])
    /\ Passes("Render") # {}

CreationOrder ==
    SelectSeq(engineLog, LAMBDA event : event[1] = "construct")
ShutdownOrder ==
    SelectSeq(engineLog, LAMBDA event : event[1] = "shutdown")

\* C22: at engine destruction Shutdown() is invoked on the modules in exactly
\* the reverse of the order in which they were created.
C22_ShutdownInReverseCreationOrder ==
    pcEngine \in {"destroyed", "crashed"} =>
        /\ Len(ShutdownOrder) = Len(CreationOrder)
        /\ \A i \in DOMAIN ShutdownOrder :
               ShutdownOrder[i][2] = CreationOrder[Len(CreationOrder) + 1 - i][2]

StageListsHolding(id) ==
    {place \in Stage \X (1..NumModules) :
        place[2] <= Len(moduleStages[place[1]]) /\ moduleStages[place[1]][place[2]] = id}

\* C27: engine construction terminates for every dependency graph of the
\* registry and constructs each registered module that passes the filter
\* exactly once, with its id in exactly one stage list.
C27_ConstructionTerminates ==
    /\ pcEngine # "overflowed"
    /\ pcEngine \in {"running", "stopped"} =>
           /\ modules = {id \in TypeIds : Check(moduleFilter, id)}
           /\ \A id \in modules :
                  /\ Cardinality(StageListsHolding(id)) = 1
                  /\ Len(SelectSeq(CreationOrder, LAMBDA event : event[2] = id)) = 1

\* C28: when Update is called repeatedly with the same uniform block argument
\* and no Push in between, it returns false at most once; every later call
\* returns true, leaves the status Normal and allocates no further buffer.
C28_RepeatedUpdateSettles ==
    lastHandlerOp.op = "Update" /\ lastHandlerOp.falseBefore =>
        /\ lastHandlerOp.returned = "true"
        /\ handler.handlerStatus_ = "Normal"
        /\ lastHandlerOp.allocated = -1

\* C30: after queue family resolution succeeds, the index stored for each of
\* the four roles names a family that has the role's capability; a role
\* without a capable family is not given the index of another family.
C30_RoleIndicesNameCapableFamilies ==
    pcQueue = "done" =>
        /\ queueIndices.GraphicsFamily \in Capable("VK_QUEUE_GRAPHICS_BIT")
        /\ queueIndices.presentFamily \in PresentCapable
        /\ queueIndices.computeFamily \in Capable("VK_QUEUE_COMPUTE_BIT")
        /\ queueIndices.transferFamily \in Capable("VK_QUEUE_TRANSFER_BIT")

(***************************************************************************)
(* Shader bundle                                                           *)
(***************************************************************************)

Lookups == {<<name, stage>> : name \in DOMAIN NameHashes,
                              stage \in {src.stage : src \in ShaderSources}}

BytecodeOf(b, i) ==
    SubSeq(b.data_, b.entries_[i].offset + 1, b.entries_[i].offset + b.entries_[i].size)

Reproduces(saved, loaded) ==
    /\ Len(loaded.entries_) = Len(saved.entries_)
    /\ \A i \in DOMAIN saved.entries_ :
           /\ loaded.entries_[i].stage = saved.entries_[i].stage
           /\ loaded.entries_[i].name = saved.entries_[i].name
           /\ loaded.entries_[i].entryPoint = saved.entries_[i].entryPoint
           /\ BytecodeOf(loaded, i) = BytecodeOf(saved, i)
    /\ \A lookup \in Lookups :
           getShaderByHash(loaded, NameHashes[lookup[1]], lookup[2])
               = getShaderByHash(saved, NameHashes[lookup[1]], lookup[2])

FitsRecord(b) ==
    \A i \in DOMAIN b.entries_ :
        Len(b.entries_[i].name) < NameSize /\ Len(b.entries_[i].entryPoint) < EntryPointSize

\* C23: saving a bundle and loading the saved file reproduces every entry's
\* stage, name, entry point and bytecode, in the same order, and every
\* (name, stage) lookup returns the same bytes as before saving.
C23_SaveLoadRoundTrip ==
    lastBundleOp.op = "load" /\ lastBundleOp.returned =>
        Reproduces(bundleFile.saved, bundle)

\* C23 (amended): the same, for a bundle whose names are shorter than the name
\* field of an entry record and whose entry points are shorter than its entry
\* point field.
C23_SaveLoadRoundTripWithinFields ==
    lastBundleOp.op = "load" /\ lastBundleOp.returned /\ FitsRecord(bundleFile.saved) =>
        Reproduces(bundleFile.saved, bundle)

C23_Witness ==
    /\ lastBundleOp.op = "load" /\ lastBundleOp.returned
    /\ FitsRecord(bundleFile.saved)
    /\ Len(bundleFile.saved.entries_) = MaxShaders
    /\ \E i, j \in DOMAIN bundle.entries_ :
           /\ bundle.entries_[i].stage # bundle.entries_[j].stage
           /\ bundle.entries_[i].name # bundle.entries_[j].name
           /\ bundle.entries_[j].offset > 0

HeaderMismatch ==
    bundleFile.exists
    /\ (bundleFile.magic # BUNDLE_MAGIC \/ bundleFile.version # BUNDLE_VERSION)

\* C24: loading a file whose magic number or version does not match returns
\* false and leaves the bundle's entries, bytecode and lookup index as they
\* were before the call.
C24_MismatchedLoadLeavesBundle ==
    [][BundleLoad /\ HeaderMismatch =>
           bundle' = bundle /\ lastBundleOp'.returned = FALSE]_vars

C24_Witness ==
    /\ lastBundleOp.op = "load" /\ ~lastBundleOp.returned
    /\ HeaderMismatch
    /\ bundle.entries_ # <<>>
    /\ bundle # bundleFile.saved

PairsOf(b) == {<<b.entries_[i].nameHash, b.entries_[i].stage>> : i \in DOMAIN b.entries_}

\* C29: for shaders added under pairwise different (name hash, stage) pairs,
\* getShaderByHash returns for each pair the bytecode added for that pair, and
\* hasShader is true only for pairs that were added.
C29_LookupReturnsWhatWasAdded ==
    Cardinality(PairsOf(bundle)) = Len(bundle.entries_) =>
        /\ \A i \in DOMAIN bundle.entries_ :
               getShaderByHash(bundle, bundle.entries_[i].nameHash, bundle.entries_[i].stage)
                   = Some(BytesToWords(BytecodeOf(bundle, i)))
        /\ \A lookup \in Lookups :
               hasShader(bundle, lookup[1], lookup[2]) =>
                   <<NameHashes[lookup[1]], lookup[2]>> \in PairsOf(bundle)

(***************************************************************************)
(* Type registry                                                           *)
(***************************************************************************)

IdsOf(K) == {pair[2] : pair \in {p \in handedOut : p[1] = K}}

\* C25: under any interleaving of concurrent GetTypeId calls, with no Clear,
\* each type receives exactly one id that never changes afterwards, distinct
\* types receive distinct ids, and the ids handed out are exactly 0..n-1 for n
\* registered types.
C25_IdsUniqueStableDense ==
    ~cleared =>
        /\ \A K \in Types : Cardinality(IdsOf(K)) <= 1
        /\ \A p, q \in handedOut : p[2] = q[2] => p[1] = q[1]
        /\ \A p \in handedOut : p[1] \in DOMAIN s_typeMap /\ s_typeMap[p[1]] = p[2]
        /\ {s_typeMap[K] : K \in DOMAIN s_typeMap} = 0..(Cardinality(DOMAIN s_typeMap) - 1)
        /\ s_nextTypeId = Cardinality(DOMAIN s_typeMap)

C25_Witness ==
    /\ ~cleared
    /\ Cardinality(handedOut) = NumTypes
    /\ \E t, u \in Threads :
           /\ t # u
           /\ typeCalls[t].pc = "missed"
           /\ typeCalls[u].pc = "idle"
           /\ typeCalls[t].type \in DOMAIN s_typeMap

-----------------------------------------------------------------------------
(***************************************************************************)
(* Shader include resolver                                                 *)
(***************************************************************************)

\* The number of times the file named filename was expanded into the
\* output: each expansion starts with the marker line of lines 167-174.
Expansions(output, filename) ==
    Cardinality({i \in 1..Len(output) :
                    /\ output[i][1] \in {"// #include", "// [Begin include:"}
                    /\ output[i][2] = filename})

IncludeFilenames == {path[2] : path \in IncludePaths}

\* C26: a resolveIncludes call with useImportSemantics = true expands each
\* include file into its output at most once, however many directives name
\* the file.
C26_ImportSemanticsExpandOnce ==
    (/\ lastIncludeOp.op = "resolveIncludes"
     /\ lastIncludeOp.useImportSemantics
     /\ lastIncludeOp.result # Nullopt)
    => \A filename \in IncludeFilenames :
           Expansions(ValueOf(lastIncludeOp.result), filename) <= 1

====
